---- MODULE Spec2Model ----
(***************************************************************************)
(* The decision engine of ghost-trifid's autopilot:                        *)
(*   src/lib/autopilot-core.ts        checkAndRunAutoPilot, toggleAutoPilot *)
(*                                    backfillHistoricalCommits             *)
(*   src/lib/code-feature-fallback.ts postAboutCodeFeature                  *)
(*   src/lib/git.ts, src/lib/supabase.ts, lib/github-api (collaborators)    *)
(*   src/components/PromptCard.tsx, src/scripts/autopilot-v2.ts (callers)   *)
(*                                                                         *)
(* A commit hash is a pair <<repository, position in the history>>; the    *)
(* empty hash ('' / null in the source) is <<>>.  A commit message is a    *)
(* sequence of words.  Days are numbered 0, 1, 2, ...                      *)
(***************************************************************************)
EXTENDS Integers, Sequences, FiniteSets, TLC

\* ------------------------------------------------------------------------
\* Bounds of the model
\* ------------------------------------------------------------------------
MaxCommits == 2

MaxPosts == 1

MaxDay == 1
\* entries that arrive while the engine watches (the stream of SpecStream)
MaxStream == 3
\* how far beyond the platform's ceiling the texts of the model go
MaxOver == 2
\* the longest thread handed to postThread
MaxThread == 2

\* posts followed in the runs of the topic fallback
MaxTopicPosts == 2

\* ------------------------------------------------------------------------
\* Program constants
\* ------------------------------------------------------------------------
DAILY_POST_LIMIT == 17

POSTED_COMMITS_CAP == 100

NORMAL_FETCH_LIMIT == 10

\* twitter.ts: the platform's character ceiling, and where slice cuts
TWEET_LIMIT == 280

TRUNCATE_AT == 277

\* twitter.ts autoRetry: maxRetries, the wait without a reset header (15
\* minutes), the buffer added to the header's wait, and the longest wait
\* that is slept
MAX_RETRIES == 2

DEFAULT_WAIT == 900

RESET_BUFFER == 5

MAX_WAIT == 15

BACKFILL_FETCH_LIMIT == 50

\* ------------------------------------------------------------------------
\* Values
\* ------------------------------------------------------------------------
NoHash == <<>>

NoDate == -1

LocalName == "local"

RemoteRepo == "o/r"

\* a second repository on GitHub
OtherRepo == "p/q"

NoRepo == ""

Repos == {LocalName, RemoteRepo}

Days == 0..MaxDay

\* the messages a developer pushes in the model
CommitMsgs ==
    { <<"feat:", "login">>, <<"fix:", "crash">>, <<"chore:", "deps">> }

\* hours of the day (America/Chicago) at which ticks are tried
SampleHours == {8, 10}

\* The JSON array the AI returns for the key files of a repository
\* (code-feature-fallback.ts 175-214), in the order the AI lists it: name,
\* relevance and, as files, those of the first three files the AI names for
\* the feature that getRepoFileContentRaw can fetch (repo: the repository
\* whose files were analysed).  The second repository gets a tie and a
\* feature none of whose files can be fetched (no file named, or paths that
\* are not in the repository).
AIFeatures(repo) ==
    IF repo = OtherRepo
    THEN << [name |-> "ui", relevance |-> 3, repo |-> repo, files |-> <<"ui.tsx">>],
            [name |-> "api", relevance |-> 7, repo |-> repo, files |-> <<"api.ts">>],
            [name |-> "db", relevance |-> 7, repo |-> repo, files |-> <<>>] >>
    ELSE << [name |-> "cache", relevance |-> 5, repo |-> repo, files |-> <<"cache.ts">>],
            [name |-> "auth", relevance |-> 9, repo |-> repo, files |-> <<"auth.ts">>] >>

\* a feature put into a list that is in descending order of relevance,
\* behind the entries that compare equal (Array.prototype.sort is stable)
insertByRelevance(sorted, f) ==
    LET k == Cardinality({ i \in 1..Len(sorted) : sorted[i].relevance >= f.relevance })
    IN  SubSeq(sorted, 1, k) \o <<f>> \o SubSeq(sorted, k + 1, Len(sorted))

\* an analysis that keeps the order of the AI's answer
sortByRelevance_AsGiven(features) == features

\* line 217: features.sort((a, b) => b.relevance - a.relevance)
RECURSIVE sortByRelevance(_)
sortByRelevance(features) ==
    IF features = <<>> THEN <<>>
    ELSE insertByRelevance(sortByRelevance(SubSeq(features, 1, Len(features) - 1)),
                           features[Len(features)])

\* what the AI analysis of a repository returns when it succeeds
\* (extractFeaturesWithAI)
RepoFeatures(repo) == sortByRelevance(AIFeatures(repo))

\* ------------------------------------------------------------------------
\* Sequence helpers
\* ------------------------------------------------------------------------
Min(a, b) == IF a <= b THEN a ELSE b

Max(a, b) == IF a >= b THEN a ELSE b

Range(s) == { s[i] : i \in 1..Len(s) }

\* Array.prototype.slice(-n)
\* a cut that keeps the first n entries, the oldest, and drops the newest
SliceLast_KeepOldest(s, n) ==
    IF Len(s) <= n THEN s ELSE SubSeq(s, 1, n)

SliceLast(s, n) ==
    IF Len(s) <= n THEN s ELSE SubSeq(s, Len(s) - n + 1, Len(s))

\* ------------------------------------------------------------------------
\* Strings: String.prototype.toLowerCase / startsWith / includes on words
\* ------------------------------------------------------------------------
toLowerCaseWord(w) ==
    CASE w = "FEAT:" -> "feat:"
      [] w = "Feat:" -> "feat:"
      [] w = "Merge" -> "merge"
      [] w = "CHORE:" -> "chore:"
      [] w = "WIP:" -> "wip:"
      [] w = "Fix:" -> "fix:"
      [] w = "Perf:" -> "perf:"
      [] w = "Refactor:" -> "refactor:"
      [] OTHER -> w

toLowerCase(msg) == [i \in 1..Len(msg) |-> toLowerCaseWord(msg[i])]

startsWith(msg, prefix) == Len(msg) > 0 /\ msg[1] = prefix

includes(msg, word) == \E i \in 1..Len(msg) : msg[i] = word

\* a noise test that also drops messages about typos
isImportant_DropsTypo(msg) ==
    LET lower == toLowerCase(msg)
    IN  /\ ~startsWith(lower, "chore:")
        /\ ~startsWith(lower, "wip:")
        /\ ~startsWith(lower, "merge")
        /\ ~includes(lower, "typo")

\* the noise test of the normal path (autopilot-core.ts 217-220)
isImportant(msg) ==
    LET lower == toLowerCase(msg)
    IN  /\ ~startsWith(lower, "chore:")
        /\ ~startsWith(lower, "wip:")
        /\ ~startsWith(lower, "merge")

\* the filter of the backfill path (autopilot-core.ts 524-531)
isInteresting(msg) ==
    LET m == toLowerCase(msg)
    IN  /\ ~startsWith(m, "chore:")
        /\ ~startsWith(m, "wip:")
        /\ ~startsWith(m, "merge")
        /\ ~includes(m, "typo")
        /\ ~includes(m, "formatting")

\* a scorer without the else: every prefix found in an entry counts
commitScore_EveryMatch(commit) ==
    LET lower == toLowerCase(commit)
    IN  (IF includes(lower, "feat:") THEN 3 ELSE 0)
        + (IF includes(lower, "perf:") THEN 2 ELSE 0)
        + (IF includes(lower, "fix:") \/ includes(lower, "refactor:") THEN 1 ELSE 0)

commitScore(commit) ==
    LET lower == toLowerCase(commit)
    IN  IF includes(lower, "feat:") THEN 3
        ELSE IF includes(lower, "perf:") THEN 2
        ELSE IF includes(lower, "fix:") \/ includes(lower, "refactor:") THEN 1
        ELSE 0

RECURSIVE calculateSignificance(_)
calculateSignificance(commits) ==
    IF commits = <<>> THEN 0
    ELSE commitScore(Head(commits)) + calculateSignificance(Tail(commits))

hasGoldenTrigger(commits) ==
    \E i \in 1..Len(commits) :
        \/ includes(toLowerCase(commits[i]), "feat:")
        \/ includes(toLowerCase(commits[i]), "major:")

\* getPostTypeForTime of autopilot-core.ts, as a function of the Chicago hour
\* an oracle whose second test is taken first at 11 o'clock
getPostTypeForTime_ValueAtEleven(hour) ==
    IF hour = 11 THEN [allowed |-> TRUE, type |-> "value"]
    ELSE IF hour >= 9 /\ hour < 13 THEN [allowed |-> TRUE, type |-> "hook"]
    ELSE IF hour >= 11 /\ hour < 16 THEN [allowed |-> TRUE, type |-> "value"]
    ELSE IF hour >= 16 /\ hour < 20 THEN [allowed |-> TRUE, type |-> "thread"]
    ELSE [allowed |-> FALSE, type |-> "value"]

getPostTypeForTime(hour) ==
    IF hour >= 9 /\ hour < 13 THEN [allowed |-> TRUE, type |-> "hook"]
    ELSE IF hour >= 11 /\ hour < 16 THEN [allowed |-> TRUE, type |-> "value"]
    ELSE IF hour >= 16 /\ hour < 20 THEN [allowed |-> TRUE, type |-> "thread"]
    ELSE [allowed |-> FALSE, type |-> "value"]

\* a fallback that posts at any hour
getPostTypeForTimeFallback_Always(hour) == [allowed |-> TRUE, type |-> "thread"]

\* getPostTypeForTime of code-feature-fallback.ts
getPostTypeForTimeFallback(hour) ==
    IF hour >= 9 /\ hour < 20 THEN [allowed |-> TRUE, type |-> "thread"]
    ELSE [allowed |-> FALSE, type |-> "thread"]

\* ------------------------------------------------------------------------
\* State
\* ------------------------------------------------------------------------
VARIABLES
    state,      \* the content of .autopilot.json (AutoPilotState)
    hist,       \* hist[r]: the commit messages of repository r, oldest first
    target,     \* the repository string the user enters in this deployment
    clock,      \* the current calendar day (UTC)
    audit,      \* the post_success records of the autopilot_logs table,
                \* oldest first (the records of the other types are written
                \* and never read back)
    published,  \* the posts the publisher accepted, oldest first
    prior,      \* posts made on day 0 before the first step of the model
    budget,     \* the number of posts the run is followed for
    tick,       \* tick[p]: the execution of checkAndRunAutoPilot caller p runs
    aborted,    \* positions in published of the posts whose run was cut
                \* short before saveState completed
    twitter,    \* the call of postToTwitter / postThread in progress
    runner,     \* the headless runner: the script started and where its
                \* main / runLoop stands
    call        \* a call of calculateSignificance or getPostTypeForTime:
                \* its argument and what it returned, call after call

vars == <<state, hist, target, clock, audit, published, prior, budget, tick, aborted, twitter, runner, call>>

\* the callers of checkAndRunAutoPilot: PromptCard's interval (runCheck) and
\* the Force-scan button / test-autopilot route / headless loop
Callers == {"timer", "manual"}

\* getAutoPilotState's default (autopilot-core.ts 34-44)
DefaultState ==
    [ lastCommitHash |-> NoHash,
      isActive |-> FALSE,
      monitoredRepo |-> NoRepo,
      monitoringMode |-> "local",
      postsToday |-> 0,
      lastPostDate |-> NoDate,
      postedCommits |-> <<>>,
      analyzedFeatures |-> <<>>,
      postedFeatures |-> <<>> ]

\* a caller that is not inside checkAndRunAutoPilot
Idle ==
    [ pc |-> "idle", result |-> "", success |-> FALSE, calls |-> {},
      synthCalls |-> 0, postCalls |-> 0,
      write |-> <<>>, post |-> <<>>, posted |-> FALSE, before |-> <<>> ]

\* no headless runner was started (the dashboard drives the engine)
NoRunner == [pc |-> "off", script |-> ""]

\* neither function is being called on its own
NoCall == [fn |-> "", arg |-> <<>>, ret |-> <<>>]

\* ------------------------------------------------------------------------
\* Repository inspector
\* ------------------------------------------------------------------------
HeadOf(r) == IF Len(hist[r]) = 0 THEN NoHash ELSE <<r, Len(hist[r])>>

Msg(c) == hist[c[1]][c[2]]

\* the newest n commits of r, newest first
LastCommits(r, n) ==
    LET k == Min(n, Len(hist[r]))
    IN  [i \in 1..k |-> <<r, Len(hist[r]) - i + 1>>]

\* getLatestRemoteCommitHash (lib/github-api): null on any failure
getLatestRemoteCommitHash(r, ok) ==
    IF ok /\ r \in DOMAIN hist THEN HeadOf(r) ELSE NoHash

\* getCurrentCommitHash (git.ts 26-34): '' on any failure
getCurrentCommitHash(ok) == IF ok THEN HeadOf(LocalName) ELSE NoHash

\* getRemoteCommits (lib/github-api): [] on any failure
getRemoteCommits(r, limit, ok) == IF ok THEN LastCommits(r, limit) ELSE <<>>

\* getNewCommits (git.ts 36-47): git log sinceHash..HEAD, [] on any failure
getNewCommits(sinceHash, ok) ==
    IF sinceHash = NoHash THEN <<>>
    ELSE IF ~ok \/ sinceHash[1] # LocalName \/ sinceHash[2] > Len(hist[LocalName])
         THEN <<>>
    ELSE LastCommits(LocalName, Len(hist[LocalName]) - sinceHash[2])

\* ------------------------------------------------------------------------
\* Audit log
\* ------------------------------------------------------------------------
AuditRec(repo, hash, action) ==
    [repo_name |-> repo, commit_hash |-> hash, action_type |-> action]

IsPostSuccess(rec) == rec.action_type = "post_success"

\* getLastPostedCommit (supabase.ts 61-79): null when the query fails
getLastPostedCommit(repoName, ok) ==
    LET hits == { i \in 1..Len(audit) :
                    /\ audit[i].repo_name = repoName
                    /\ audit[i].action_type = "post_success" }
    IN  IF ~ok \/ hits = {} THEN NoHash
        ELSE audit[CHOOSE i \in hits : \A j \in hits : j <= i].commit_hash

\* ------------------------------------------------------------------------
\* What one run of checkAndRunAutoPilot returns to the steps below.
\* synthCalls counts the requests for post text (generateOptionsAction; in
\* the topic fallback the direct model call and its generateOptionsAction
\* retry are one request), postCalls the calls of postCreativeTweet.
\* ------------------------------------------------------------------------
Return(result, success, calls, pre) ==
    [ result |-> result, success |-> success, calls |-> calls,
      synthCalls |-> 0, postCalls |-> 0,
      pre |-> pre, pub |-> <<>>, write |-> <<>>, post |-> <<>> ]

\* The inputs of one run: which collaborators answer, the hour, and whether
\* midnight (UTC) passes between the start of the run and the end of the
\* publisher call.  An input that the run cannot reach (the synthesizer's
\* answer when the head cannot be fetched, ...) is fixed to one value.
Envs ==
    { e \in [ headOk : BOOLEAN, commitsOk : BOOLEAN, dbOk : BOOLEAN,
              filesOk : BOOLEAN, genOk : BOOLEAN, postOk : BOOLEAN,
              hour : SampleHours, cross : BOOLEAN ] :
        /\ ~e.headOk => e.commitsOk /\ e.dbOk /\ e.filesOk /\ e.hour = 10
        /\ (~e.headOk \/ e.hour = 8 \/ ~e.filesOk) => e.genOk
        /\ ~e.genOk => e.postOk
        /\ ~e.postOk => ~e.cross }

\* a failure path that saves the state object as it is in memory
FailureWrite_AsInMemory(st) == <<st>>

\* a failure path that counts the failed attempt against the quota
FailureWrite_Counted(st) == <<[st EXCEPT !.postsToday = st.postsToday + 1]>>

\* what a failed synthesis or publish leaves to be written (nothing:
\* autopilot-core.ts 332-344, 454-468, 594-596, 637-640;
\* code-feature-fallback.ts 424-426, 489-492)
FailureWrite(st) == <<>>

\* ------------------------------------------------------------------------
\* postAboutCodeFeature (code-feature-fallback.ts 292-493)
\* ------------------------------------------------------------------------
\* analyzeRepositoryFeatures: [] when no file can be fetched or the AI fails
analyzeRepositoryFeatures(repo, ok) == IF ok THEN RepoFeatures(repo) ELSE <<>>

FeatureWrite(st, analyzed, feature, today) ==
    [st EXCEPT !.postsToday = st.postsToday + 1,
               !.lastPostDate = today,
               !.analyzedFeatures = analyzed,
               !.postedFeatures = Append(st.postedFeatures, feature.name)]

FeatureMarker(st) == st.lastCommitHash

postAboutCodeFeature(st, repoName, env, calls, later) ==
    IF st.monitoringMode # "remote" \/ st.monitoredRepo = NoRepo
    THEN Return("local_repo", FALSE, calls, <<>>)
    ELSE
    LET analyzed == IF st.analyzedFeatures = <<>>
                    THEN analyzeRepositoryFeatures(st.monitoredRepo, env.filesOk)
                    ELSE st.analyzedFeatures
        calls1 == IF st.analyzedFeatures = <<>>
                  THEN calls \cup {"inspector", "synthesizer"} ELSE calls
        IsUnposted(f) == f.name \notin Range(st.postedFeatures)
        unpostedFeatures == SelectSeq(analyzed, IsUnposted)
        feature == unpostedFeatures[1]
        schedule == getPostTypeForTimeFallback(env.hour)
    IN  IF analyzed = <<>> THEN Return("no_features", FALSE, calls1, <<>>)
        ELSE IF unpostedFeatures = <<>>
        THEN Return("no_more_features", FALSE, calls1, <<>>)
        ELSE IF ~schedule.allowed
        THEN Return("outside_window", FALSE, calls1, <<>>)
        ELSE IF ~env.filesOk \/ feature.files = <<>>
        THEN Return("no_code_extracted", FALSE, calls1 \cup {"inspector"}, <<>>)
        ELSE IF ~env.genOk
        THEN [ Return("gen_failed", FALSE,
                      calls1 \cup {"inspector", "synthesizer"}, <<>>)
               EXCEPT !.write = FailureWrite(st), !.synthCalls = 1 ]
        ELSE IF ~env.postOk
        THEN [ Return("post_failed", FALSE,
                      calls1 \cup {"inspector", "synthesizer", "publisher"}, <<>>)
               EXCEPT !.write = FailureWrite(st), !.synthCalls = 1, !.postCalls = 1 ]
        ELSE [ result |-> "posted", success |-> TRUE,
               synthCalls |-> 1, postCalls |-> 1,
               calls |-> calls1 \cup {"inspector", "synthesizer", "publisher",
                                      "statefile", "auditlog"},
               pre |-> <<>>,
               pub |-> << [path |-> "feature", commits |-> {},
                           topic |-> feature.name, day |-> later] >>,
               write |-> << FeatureWrite(st, analyzed, feature, later) >>,
               post |-> << AuditRec(repoName, FeatureMarker(st), "post_success") >> ]

\* ------------------------------------------------------------------------
\* backfillHistoricalCommits (autopilot-core.ts 474-641)
\* ------------------------------------------------------------------------
\* a backfill write that counts the post and forgets to record the commit
BackfillWrite_CountOnly(st, commitHash) ==
    [st EXCEPT !.postsToday = st.postsToday + 1]

BackfillWrite(st, commitHash) ==
    [st EXCEPT !.postsToday = st.postsToday + 1,
               !.postedCommits =
                   SliceLast(Append(st.postedCommits, commitHash),
                             POSTED_COMMITS_CAP)]

\* a backfill that takes the newest entry
oldestOf_Newest(commits) == commits[1]

\* line 540: the list is newest first, the last element is the oldest
oldestOf(commits) == commits[Len(commits)]

backfillHistoricalCommits(st, repoName, env, calls, later) ==
    LET remote == st.monitoringMode = "remote" /\ st.monitoredRepo # NoRepo
        historicalCommits ==
            IF remote
            THEN getRemoteCommits(st.monitoredRepo, BACKFILL_FETCH_LIMIT, env.commitsOk)
            ELSE LastCommits(LocalName, BACKFILL_FETCH_LIMIT)
        IsUnposted(c) == c \notin Range(st.postedCommits)
        unpostedCommits == SelectSeq(historicalCommits, IsUnposted)
        IsInteresting(c) == isInteresting(Msg(c))
        interestingCommits == SelectSeq(unpostedCommits, IsInteresting)
        commitToPost == oldestOf(interestingCommits)
        schedule == getPostTypeForTime(env.hour)
        calls1 == calls \cup {"inspector"}
    IN  IF ~remote /\ ~env.commitsOk
        THEN Return("no_git_history", FALSE, calls1, <<>>)
        ELSE IF unpostedCommits = <<>>
        THEN postAboutCodeFeature(st, repoName, env, calls1, later)
        ELSE IF interestingCommits = <<>>
        THEN Return("No interesting backfill", TRUE, calls1, <<>>)
        ELSE IF ~schedule.allowed
        THEN Return("Outside posting hours", TRUE, calls1, <<>>)
        ELSE IF ~env.genOk
        THEN [ Return("gen_failed", FALSE, calls1 \cup {"synthesizer"}, <<>>)
               EXCEPT !.write = FailureWrite(st), !.synthCalls = 1 ]
        ELSE IF ~env.postOk
        THEN [ Return("post_failed", FALSE,
                      calls1 \cup {"synthesizer", "publisher"}, <<>>)
               EXCEPT !.write = FailureWrite(st), !.synthCalls = 1, !.postCalls = 1 ]
        ELSE [ result |-> "posted", success |-> TRUE,
               synthCalls |-> 1, postCalls |-> 1,
               calls |-> calls1 \cup {"synthesizer", "publisher",
                                      "statefile", "auditlog"},
               pre |-> <<>>,
               pub |-> << [path |-> "backfill", commits |-> {commitToPost},
                           topic |-> "", day |-> st.lastPostDate] >>,
               write |-> << BackfillWrite(st, commitToPost) >>,
               post |-> << AuditRec(repoName, commitToPost, "post_success") >> ]

\* ------------------------------------------------------------------------
\* checkAndRunAutoPilot (autopilot-core.ts 135-469)
\* ------------------------------------------------------------------------
\* the day rollover of lines 191-195 and 252-256
\* a reset that does not look at the stored day
ResetQuota_EveryTick(st, today) ==
    [st EXCEPT !.postsToday = 0, !.lastPostDate = today]

ResetQuota(st, today) ==
    IF st.lastPostDate # today
    THEN [st EXCEPT !.postsToday = 0, !.lastPostDate = today]
    ELSE st

\* lines 197-198 and 258
\* an engine without a daily limit
QuotaLeft_Always(st) == TRUE

\* an off-by-one quota test
QuotaLeft_OffByOne(st) == st.postsToday <= DAILY_POST_LIMIT

QuotaLeft(st) == st.postsToday < DAILY_POST_LIMIT

\* a noise skip that leaves the marker where it was
NoiseSkipWrite_Stay(st, currentHash) == st

\* lines 230-231
NoiseSkipWrite(st, currentHash) == [st EXCEPT !.lastCommitHash = currentHash]

\* a publish that moves the marker and leaves the quota as it was
NormalWrite_NoCount(st, currentHash, today) ==
    [st EXCEPT !.lastCommitHash = currentHash,
               !.lastPostDate = today,
               !.postedCommits =
                   SliceLast(Append(st.postedCommits, currentHash),
                             POSTED_COMMITS_CAP)]

\* lines 409-418
NormalWrite(st, currentHash, today) ==
    [st EXCEPT !.lastCommitHash = currentHash,
               !.postsToday = st.postsToday + 1,
               !.lastPostDate = today,
               !.postedCommits =
                   SliceLast(Append(st.postedCommits, currentHash),
                             POSTED_COMMITS_CAP)]

\* a batching tick that charges the quota
BatchingWrite_Counted(st, currentHash) ==
    <<[st EXCEPT !.postsToday = st.postsToday + 1]>>

\* a batching tick that moves the marker over the pending batch
BatchingWrite_Advance(st, currentHash) ==
    <<[st EXCEPT !.lastCommitHash = currentHash]>>

\* lines 244-247: a batch below the threshold is left pending, nothing is
\* written
BatchingWrite(st, currentHash) == <<>>

\* STEP 2 (lines 217-220): the entries the noise filter lets through
importantCommitsOf(newCommits) ==
    LET IsImportant(c) == isImportant(Msg(c))
    IN  SelectSeq(newCommits, IsImportant)

\* the messages of a list of commits
Messages(commits) == [i \in 1..Len(commits) |-> Msg(commits[i])]

\* a threshold that counts entries and knows no golden trigger or score
BelowThreshold_CountOnly(messages) ==
    /\ messages # <<>>
    /\ Len(messages) < 3

\* STEP 3 (lines 239-244): the surviving batch is below the threshold
BelowThreshold(messages) ==
    /\ messages # <<>>
    /\ ~hasGoldenTrigger(messages)
    /\ Len(messages) < 3
    /\ calculateSignificance(messages) < 3

\* STEP 2 onwards (lines 217-469): newCommits is not empty
ProcessNewCommits(st, repoName, currentHash, newCommits, env, calls, today) ==
    LET importantCommits == importantCommitsOf(newCommits)
        messages == Messages(importantCommits)
        st4 == ResetQuota(st, today)
        schedule == getPostTypeForTime(env.hour)
        generated == AuditRec(repoName, currentHash, "generate")
    IN  IF importantCommits = <<>>
        THEN [ Return("Skipped noise commits", TRUE,
                      calls \cup {"auditlog", "statefile"},
                      << AuditRec(repoName, currentHash, "skip") >>)
               EXCEPT !.write = << NoiseSkipWrite(st, currentHash) >> ]
        ELSE IF BelowThreshold(messages)
        THEN [ Return("Batching", TRUE, calls, <<>>)
               EXCEPT !.write = BatchingWrite(st, currentHash) ]
        ELSE IF ~QuotaLeft(st4)
        THEN Return("Daily limit reached", TRUE, calls \cup {"auditlog"},
                    << AuditRec(repoName, currentHash, "skip") >>)
        ELSE IF ~schedule.allowed
        THEN Return("Outside active hours.", TRUE, calls, <<>>)
        ELSE IF ~env.genOk
        THEN [ Return("gen_failed", FALSE, calls \cup {"synthesizer", "auditlog"},
                      << generated >>)
               EXCEPT !.write = FailureWrite(st4), !.synthCalls = 1 ]
        ELSE IF ~env.postOk
        THEN [ Return("post_failed", FALSE,
                      calls \cup {"synthesizer", "publisher", "auditlog"},
                      << generated, AuditRec(repoName, currentHash, "post_fail") >>)
               EXCEPT !.write = FailureWrite(st4), !.synthCalls = 1, !.postCalls = 1 ]
        ELSE [ result |-> "posted", success |-> TRUE,
               synthCalls |-> 1, postCalls |-> 1,
               calls |-> calls \cup {"synthesizer", "publisher",
                                     "statefile", "auditlog"},
               pre |-> << generated >>,
               pub |-> << [path |-> "normal", commits |-> Range(importantCommits),
                           topic |-> "", day |-> today] >>,
               write |-> << NormalWrite(st4, currentHash, today) >>,
               post |-> << AuditRec(repoName, currentHash, "post_success") >> ]

\* lines 188-212: nothing new; backfill while quota remains
NoNewCommits(st, repoName, currentHash, env, calls, today, later) ==
    LET st1 == ResetQuota(st, today)
    IN  IF QuotaLeft(st1)
        THEN backfillHistoricalCommits(st1, repoName, env, calls, later)
        ELSE Return("No new commits", TRUE, calls \cup {"auditlog"},
                    << AuditRec(repoName, currentHash, "check") >>)

\* line 142
\* an engine that ignores the switch
Disabled_Never(st) == FALSE

Disabled(st) == ~st.isActive

\* STEP 1 (lines 154-182): the head the run observes ...
Remote(st) == st.monitoringMode = "remote" /\ st.monitoredRepo # NoRepo

currentHashOf(st, env) ==
    IF Remote(st)
    THEN getLatestRemoteCommitHash(st.monitoredRepo, env.headOk)
    ELSE getCurrentCommitHash(env.headOk)

\* ... and the entries it takes as new
newCommitsOf(st, env) ==
    LET currentHash == currentHashOf(st, env)
        dbLastHash == getLastPostedCommit(st.monitoredRepo, env.dbOk)
        lastHash == IF dbLastHash # NoHash THEN dbLastHash ELSE st.lastCommitHash
    IN  IF Remote(st)
        THEN IF currentHash # lastHash
             THEN getRemoteCommits(st.monitoredRepo, NORMAL_FETCH_LIMIT, env.commitsOk)
             ELSE <<>>
        ELSE IF currentHash # st.lastCommitHash
             THEN getNewCommits(st.lastCommitHash, env.commitsOk)
             ELSE <<>>

checkAndRunAutoPilot(st, env, today, later) ==
    LET repoName == IF st.monitoredRepo # NoRepo THEN st.monitoredRepo ELSE LocalName
        remote == Remote(st)
        currentHash == currentHashOf(st, env)
        newCommits == newCommitsOf(st, env)
        calls == IF remote THEN {"inspector", "auditlog"} ELSE {"inspector"}
    IN  IF Disabled(st) THEN Return("inactive", FALSE, {}, <<>>)
        ELSE IF currentHash = NoHash
        THEN Return(IF remote THEN "no_remote_git" ELSE "no_git", FALSE,
                    {"inspector"}, <<>>)
        ELSE IF currentHash = st.lastCommitHash \/ newCommits = <<>>
        THEN NoNewCommits(st, repoName, currentHash, env, calls, today, later)
        ELSE ProcessNewCommits(st, repoName, currentHash, newCommits, env, calls, today)

\* ------------------------------------------------------------------------
\* toggleAutoPilot (autopilot-core.ts 52-92)
\* ------------------------------------------------------------------------
\* The strings a user types into the repository box, spelled in pieces:
\* a '/' and a '.git' are pieces of their own, no other piece contains
\* either, and a string is the concatenation of its pieces.
InputSpellings ==
    { <<>>,
      <<" ">>,
      <<"r">>,
      <<"o", "/", "r">>,
      <<"p", "/", "q">>,
      <<"o", "/", "r", ".git">>,
      <<"https:", "/", "/", "github.com", "/", "o", "/", "r">>,
      <<"https:", "/", "/", "github.com", "/", "o", "/", "r", "/", "issues">>,
      <<"o", "/", "o", ".git", "hub.io">> }

RECURSIVE Join(_)
Join(pieces) ==
    IF pieces = <<>> THEN "" ELSE Head(pieces) \o Join(Tail(pieces))

RepoInputs == { Join(pieces) : pieces \in InputSpellings }

\* String.prototype.replace(search, '') with a string pattern: the first
\* occurrence goes, wherever it is
RECURSIVE replaceFirst(_, _)
replaceFirst(pieces, search) ==
    IF pieces = <<>> THEN <<>>
    ELSE IF Head(pieces) = search THEN Tail(pieces)
    ELSE <<Head(pieces)>> \o replaceFirst(Tail(pieces), search)

\* [^\/]+ from position i: the last position of the longest run without '/'
\* (i - 1 when the run is empty)
RECURSIVE RunEnd(_, _)
RunEnd(pieces, i) ==
    IF i > Len(pieces) \/ pieces[i] = "/" THEN i - 1
    ELSE RunEnd(pieces, i + 1)

\* ([^\/]+\/[^\/]+) matched from position a: the matched pieces, or <<>>
OwnerSlashName(pieces, a) ==
    LET e1 == RunEnd(pieces, a)
        e2 == RunEnd(pieces, e1 + 2)
    IN  IF e1 >= a /\ e1 + 1 <= Len(pieces) /\ e2 >= e1 + 2
        THEN [e2 |-> e2, group |-> SubSeq(pieces, a, e2)]
        ELSE [e2 |-> 0, group |-> <<>>]

\* repoUrl.match(/github\.com\/([^\/]+\/[^\/]+)/): group 1 of the leftmost
\* match, or <<>>
matchGithubUrl(pieces) ==
    LET At(i) == /\ pieces[i] = "github.com"
                 /\ pieces[i + 1] = "/"
                 /\ OwnerSlashName(pieces, i + 2).group # <<>>
        hits == { i \in 1..(Len(pieces) - 1) : At(i) }
    IN  IF hits = {} THEN <<>>
        ELSE OwnerSlashName(pieces, (CHOOSE i \in hits : \A k \in hits : i <= k) + 2).group

\* repoUrl.match(/^([^\/]+\/[^\/]+)$/)
matchOwnerRepo(pieces) ==
    LET m == OwnerSlashName(pieces, 1)
    IN  IF m.group # <<>> /\ m.e2 = Len(pieces) THEN m.group ELSE <<>>

\* how a string is spelled
Spell(repoUrl) ==
    CHOOSE pieces \in InputSpellings : Join(pieces) = repoUrl

\* repoUrl.trim().length > 0
IsBlank(repoUrl) == \A i \in 1..Len(Spell(repoUrl)) : Spell(repoUrl)[i] = " "

\* lines 58-60: the two regular expressions and match[1].replace('.git', '')
ParseRepo(repoUrl) ==
    LET first == matchGithubUrl(Spell(repoUrl))
        match == IF first # <<>> THEN first ELSE matchOwnerRepo(Spell(repoUrl))
    IN  IF match = <<>> THEN NoRepo
        ELSE Join(replaceFirst(match, ".git"))

\* lines 71-74
\* a toggle that takes the fetched hash even when the fetch failed
RemoteToggleHash_Unguarded(st, monitoredRepo, remoteHash) ==
    IF ~st.isActive \/ st.monitoredRepo # monitoredRepo
    THEN remoteHash
    ELSE st.lastCommitHash

\* a toggle that keeps the stored marker when it switches the engine on
RemoteToggleHash_Keep(st, monitoredRepo, remoteHash) == st.lastCommitHash

RemoteToggleHash(st, monitoredRepo, remoteHash) ==
    IF remoteHash # NoHash /\ (~st.isActive \/ st.monitoredRepo # monitoredRepo)
    THEN remoteHash
    ELSE st.lastCommitHash

toggleAutoPilot(st, isActive, repoUrl, headOk) ==
    LET given == ~IsBlank(repoUrl)
        match == ParseRepo(repoUrl)
        monitoredRepo == IF given
                         THEN (IF match # NoRepo THEN match ELSE st.monitoredRepo)
                         ELSE NoRepo
        monitoringMode == IF given
                          THEN (IF match # NoRepo THEN "remote" ELSE st.monitoringMode)
                          ELSE "local"
        remote == monitoringMode = "remote" /\ monitoredRepo # NoRepo
        remoteHash == getLatestRemoteCommitHash(monitoredRepo, headOk)
        lastCommitHash ==
            IF ~isActive THEN st.lastCommitHash
            ELSE IF remote
            THEN RemoteToggleHash(st, monitoredRepo, remoteHash)
            ELSE IF st.lastCommitHash = NoHash \/ monitoringMode # "local"
                 THEN getCurrentCommitHash(headOk) ELSE st.lastCommitHash
    IN  [st EXCEPT !.lastCommitHash = lastCommitHash,
                   !.isActive = isActive,
                   !.monitoredRepo = monitoredRepo,
                   !.monitoringMode = IF isActive /\ ~remote THEN "local"
                                      ELSE monitoringMode]

\* ------------------------------------------------------------------------
\* Publisher (twitter.ts)
\* ------------------------------------------------------------------------
\* A text is a sequence of characters (UTF-16 code units, as .length and
\* .slice see them).
Digits == <<"0", "1", "2", "3", "4", "5", "6", "7", "8", "9">>

\* the text of n characters the model posts
TextOf(n) == [i \in 1..n |-> Digits[(i % 10) + 1]]

Ellipsis == <<".", ".", ".">>

\* String.prototype.slice(0, n)
sliceTo(text, n) == SubSeq(text, 1, Min(n, Len(text)))

\* a truncation that cuts at the ceiling and then appends the dots
truncate_CutAtLimit(text) ==
    IF Len(text) > TWEET_LIMIT
    THEN sliceTo(text, TWEET_LIMIT) \o Ellipsis
    ELSE text

\* lines 78-82 and 128-130
truncate(text) ==
    IF Len(text) > TWEET_LIMIT
    THEN sliceTo(text, TRUNCATE_AT) \o Ellipsis
    ELSE text

\* lines 41-49: the wait computed from the error of a 429 answer; reset is
\* <<>> without a reset header, else <<resetHeader - now>> in seconds
waitSecondsOf(reset) ==
    IF reset = <<>> THEN DEFAULT_WAIT ELSE reset[1] + RESET_BUFFER

\* a retry loop that sleeps however long the platform says
TooLong_Never(waitSeconds) == FALSE

\* line 53
TooLong(waitSeconds) == waitSeconds > MAX_WAIT

\* no call of the publisher in progress
Quiet ==
    [ pc |-> "idle", op |-> "", content |-> <<>>, texts |-> <<>>,
      i |-> 0, attempts |-> 0, handed |-> <<>>, sleeps |-> <<>>,
      wait |-> 0, last |-> "", success |-> FALSE ]

\* ------------------------------------------------------------------------
\* Steps
\* ------------------------------------------------------------------------
TargetRepo == IF target = "" THEN LocalName ELSE ParseRepo(target)

AllIdle == \A q \in Callers : tick[q].pc = "idle"

\* a developer pushes one commit to the monitored repository
Push(msg) ==
    /\ Len(hist[TargetRepo]) < MaxCommits
    /\ hist' = [hist EXCEPT ![TargetRepo] = Append(@, msg)]
    /\ UNCHANGED <<state, target, clock, audit, published, prior, budget, tick, aborted, twitter, runner, call>>

\* midnight (UTC) passes
AdvanceDay ==
    /\ clock < MaxDay
    /\ clock' = clock + 1
    /\ UNCHANGED <<state, hist, target, audit, published, prior, budget, tick, aborted, twitter, runner, call>>

\* the user flips the switch of the dashboard (or the headless runner starts)
Toggle(isActive, headOk) ==
    /\ state' = toggleAutoPilot(state, isActive, target, headOk)
    /\ UNCHANGED <<hist, target, clock, audit, published, prior, budget, tick, aborted, twitter, runner, call>>

Later(env) == IF env.cross THEN clock + 1 ELSE clock

\* the inputs a run from state st reads: a switched-off engine reads none,
\* a local one does not read the audit log, and an input that is not read
\* is fixed to one value
Reads(st, env) ==
    /\ ~st.isActive =>
          /\ env.headOk /\ env.commitsOk /\ env.dbOk /\ env.filesOk
          /\ env.genOk /\ env.postOk /\ env.hour = 10 /\ ~env.cross
    /\ ~Remote(st) => env.dbOk

\* caller p runs checkAndRunAutoPilot up to and including the publisher call
\* (midnight during a run is followed when the run publishes: no other run
\* reads the date after its first lines)
TickRunBody(p, env) ==
    /\ tick[p].pc = "idle"
    /\ Len(published) < budget
    /\ env.cross => clock < MaxDay
    /\ Reads(state, env)
    /\ LET out == checkAndRunAutoPilot(state, env, clock, Later(env))
       IN  /\ env.cross => out.pub # <<>>
           /\ audit' = audit \o SelectSeq(out.pre, IsPostSuccess)
           /\ published' = published \o out.pub
           /\ tick' = [tick EXCEPT ![p] =
                        [ pc |-> IF out.write # <<>> THEN "save" ELSE "return",
                          result |-> out.result, success |-> out.success,
                          calls |-> out.calls,
                          synthCalls |-> out.synthCalls,
                          postCalls |-> out.postCalls, write |-> out.write,
                          post |-> out.post, posted |-> out.pub # <<>>,
                          before |-> <<>> ]]
    /\ clock' = Later(env)
    /\ UNCHANGED <<state, hist, target, prior, budget, aborted, twitter, call>>

\* ... called from the dashboard or the cron route
TickRun(p, env) ==
    /\ TickRunBody(p, env)
    /\ UNCHANGED runner

\* saveState (autopilot-core.ts 48-50): the whole object read at the start
TickSave(p) ==
    /\ tick[p].pc = "save"
    /\ state' = tick[p].write[1]
    /\ tick' = [tick EXCEPT ![p].pc = IF tick[p].post # <<>> THEN "log" ELSE "return"]
    /\ UNCHANGED <<hist, target, clock, audit, published, prior, budget, aborted, twitter, runner, call>>

\* the post_success record written after saveState
TickLog(p) ==
    /\ tick[p].pc = "log"
    /\ audit' = audit \o tick[p].post
    /\ tick' = [tick EXCEPT ![p].pc = "return"]
    /\ UNCHANGED <<state, hist, target, clock, published, prior, budget, aborted, twitter, runner, call>>

\* checkAndRunAutoPilot returns to its caller
TickReturn(p) ==
    /\ tick[p].pc = "return"
    /\ tick' = [tick EXCEPT ![p] = Idle]
    /\ UNCHANGED <<state, hist, target, clock, audit, published, prior, budget, aborted, twitter, runner, call>>

\* The state file after n posts earlier on day 0 (n = 0: no state file yet),
\* empty histories, and a run followed for b posts.
InitWith(n, b) ==
    /\ prior = n
    /\ budget = b
    /\ state = [DefaultState EXCEPT
                  !.postsToday = n,
                  !.lastPostDate = IF n = 0 THEN NoDate ELSE 0]
    /\ hist = [r \in Repos |-> <<>>]
    /\ target \in {"", RemoteRepo}
    /\ clock = 0
    /\ audit = <<>>
    /\ published = <<>>
    /\ tick = [p \in Callers |-> Idle]
    /\ aborted = {}
    /\ twitter = Quiet
    /\ runner = NoRunner
    /\ call = NoCall

Init == InitWith(0, MaxPosts)

\* one caller at a time, and no toggle while a tick runs
Next ==
    \/ \E msg \in CommitMsgs : AllIdle /\ Push(msg)
    \/ AllIdle /\ AdvanceDay
    \/ \E a \in BOOLEAN, ok \in BOOLEAN : AllIdle /\ Toggle(a, ok)
    \/ \E env \in Envs : AllIdle /\ TickRun("timer", env)
    \/ TickSave("timer")
    \/ TickLog("timer")
    \/ TickReturn("timer")

Spec == Init /\ [][Next]_vars

\* The same engine on a repository whose history is made of a bug fix and
\* a documentation touch-up.
ScenarioMsgs == { <<"fix:", "null", "pointer">>, <<"docs:", "typo">> }

NextScenario ==
    \/ \E msg \in ScenarioMsgs : AllIdle /\ Push(msg)
    \/ AllIdle /\ AdvanceDay
    \/ \E a \in BOOLEAN, ok \in BOOLEAN : AllIdle /\ Toggle(a, ok)
    \/ \E env \in Envs : AllIdle /\ TickRun("timer", env)
    \/ TickSave("timer")
    \/ TickLog("timer")
    \/ TickReturn("timer")

SpecScenario == Init /\ [][NextScenario]_vars

\* The engine switched on at the head of a repository of one commit, and
\* entries arriving one by one while it ticks.
InitStream ==
    /\ prior = 0
    /\ budget = MaxPosts
    /\ target \in {"", RemoteRepo}
    /\ hist = [r \in Repos |-> IF r = TargetRepo THEN << <<"chore:", "deps">> >> ELSE <<>>]
    /\ state = toggleAutoPilot(DefaultState, TRUE, target, TRUE)
    /\ clock = 0
    /\ audit = <<>>
    /\ published = <<>>
    /\ tick = [p \in Callers |-> Idle]
    /\ aborted = {}
    /\ twitter = Quiet
    /\ runner = NoRunner
    /\ call = NoCall

\* the entries of the stream: a small fix, or a feature
StreamMsgs == { <<"fix:", "crash">>, <<"feat:", "login">> }

Arrive(msg) ==
    /\ Len(hist[TargetRepo]) < 1 + MaxStream
    /\ hist' = [hist EXCEPT ![TargetRepo] = Append(@, msg)]
    /\ UNCHANGED <<state, target, clock, audit, published, prior, budget, tick, aborted, twitter, runner, call>>

NextStream ==
    \/ \E msg \in StreamMsgs : AllIdle /\ Arrive(msg)
    \/ \E env \in Envs : AllIdle /\ TickRun("timer", env)
    \/ TickSave("timer")
    \/ TickLog("timer")
    \/ TickReturn("timer")

SpecStream == InitStream /\ [][NextStream]_vars

\* a day on which all posts of the daily limit, or all but one, were already
\* made
InitQuota ==
    \E n \in {DAILY_POST_LIMIT - 1, DAILY_POST_LIMIT} : InitWith(n, MaxPosts)

SpecQuota == InitQuota /\ [][Next]_vars

\* a run followed for one post more
InitRepeat == InitWith(0, MaxPosts + 1)

SpecRepeat == InitRepeat /\ [][Next]_vars

\* ------------------------------------------------------------------------
\* Runs that are cut short, and callers that do not wait for each other
\* ------------------------------------------------------------------------
\* The run of caller p ends after the publisher accepted the post and before
\* saveState completed: fs.writeFile throws (nothing in checkAndRunAutoPilot
\* catches it), contentToPost[0].substring throws on the empty thread list
\* the publisher accepted (autopilot-core.ts 420-422, 616-618;
\* code-feature-fallback.ts 465), or the process exits (autopilot-v2.ts
\* shutdown).
Abort(p) ==
    /\ tick[p].pc = "save"
    /\ tick[p].posted
    /\ tick' = [tick EXCEPT ![p] = Idle]
    /\ aborted' = aborted \cup {Len(published)}
    /\ UNCHANGED <<state, hist, target, clock, audit, published, prior, budget, twitter, runner, call>>

NextAbort ==
    \/ Next
    \/ Abort("timer")

SpecAbort == InitRepeat /\ [][NextAbort]_vars

\* saveState is fs.writeFile on the state file itself: the file is opened
\* with truncation and the JSON text is written afterwards.  Between the two
\* the file holds nothing or a prefix of the text, JSON.parse throws on
\* either, and getAutoPilotState returns its default (lines 33-44).
\* before remembers the content the write replaces.
SaveStateOpen(p) ==
    /\ tick[p].pc = "save"
    /\ state' = DefaultState
    /\ tick' = [tick EXCEPT ![p].pc = "saving", ![p].before = <<state>>]
    /\ UNCHANGED <<hist, target, clock, audit, published, prior, budget, aborted, twitter, runner, call>>

SaveStateWritten(p) ==
    /\ tick[p].pc = "saving"
    /\ state' = tick[p].write[1]
    /\ tick' = [tick EXCEPT ![p].pc = IF tick[p].post # <<>> THEN "log" ELSE "return",
                            ![p].before = <<>>]
    /\ UNCHANGED <<hist, target, clock, audit, published, prior, budget, aborted, twitter, runner, call>>

\* the timer's run writes while the dashboard reads: the switch is flipped
\* or a scan is forced while the file is open
NextTorn ==
    \/ Next
    \/ SaveStateOpen("timer")
    \/ SaveStateWritten("timer")
    \/ \E a \in BOOLEAN, ok \in BOOLEAN :
          tick["timer"].pc = "saving" /\ Toggle(a, ok)
    \/ \E env \in Envs :
          tick["timer"].pc = "saving" /\ TickRun("manual", env)
    \/ TickReturn("manual")

SpecTorn == Init /\ [][NextTorn]_vars

\* The user of the dashboard types a repository and flips the switch, again
\* and again, while commits arrive.
ToggleWith(isActive, repoUrl, headOk) ==
    /\ state' = toggleAutoPilot(state, isActive, repoUrl, headOk)
    /\ UNCHANGED <<hist, target, clock, audit, published, prior, budget, tick, aborted, twitter, runner, call>>

NextToggle ==
    \/ \E msg \in CommitMsgs : Push(msg)
    \/ \E a \in BOOLEAN, url \in RepoInputs, ok \in BOOLEAN : ToggleWith(a, url, ok)

SpecToggle == Init /\ [][NextToggle]_vars

\* ------------------------------------------------------------------------
\* One call of postToTwitter or postThread, attempt by attempt
\* ------------------------------------------------------------------------
\* the lengths of the texts the model posts
TextLengths == {0, 1, TRUNCATE_AT, TWEET_LIMIT} \cup { TWEET_LIMIT + k : k \in 1..MaxOver }

\* the thread lengths
Threads ==
    UNION { [1..n -> {1, TWEET_LIMIT} \cup { TWEET_LIMIT + k : k \in 1..MaxOver }] :
            n \in 1..MaxThread }

\* resetHeader - now, in seconds, of the 429 answers of the model
ResetDeltas == {-10, 0, MAX_WAIT - RESET_BUFFER, MAX_WAIT - RESET_BUFFER + 1, DEFAULT_WAIT - RESET_BUFFER}

\* what rwClient answers to one attempt
Answers ==
    { [kind |-> "ok", reset |-> <<>>], [kind |-> "other", reset |-> <<>>],
      [kind |-> "429", reset |-> <<>>] }
    \cup { [kind |-> "429", reset |-> <<d>>] : d \in ResetDeltas }

CallWith(op, content) ==
    /\ twitter.pc = "idle"
    /\ twitter' = [ Quiet EXCEPT
                      !.pc = "call", !.op = op, !.content = content,
                      !.texts = [k \in 1..Len(content) |-> truncate(content[k])] ]
    /\ UNCHANGED <<state, hist, target, clock, audit, published, prior, budget, tick, aborted, runner, call>>

\* postToTwitter(content), lines 75-84
postToTwitter(n) == CallWith("tweet", << TextOf(n) >>)

\* postThread(tweets), lines 123-134
postThread(lengths) ==
    CallWith("thread", [k \in 1..Len(lengths) |-> TextOf(lengths[k])])

\* autoRetry, lines 33-70: one pass of the loop up to its return, throw or
\* sleep
Attempt(answer) ==
    /\ twitter.pc = "call"
    /\ LET waitSeconds == waitSecondsOf(answer.reset)
           tried == [ twitter EXCEPT
                        !.attempts = twitter.attempts + 1,
                        !.handed = twitter.handed \o twitter.texts,
                        !.last = answer.kind,
                        !.wait = IF answer.kind = "429" THEN waitSeconds ELSE 0 ]
       IN  twitter' =
             IF answer.kind = "ok"
             THEN [tried EXCEPT !.pc = "done", !.success = TRUE]
             ELSE IF answer.kind # "429"
             THEN [tried EXCEPT !.pc = "done"]
             ELSE IF TooLong(waitSeconds)
             THEN [tried EXCEPT !.pc = "done"]
             ELSE IF twitter.i = MAX_RETRIES
             THEN [tried EXCEPT !.pc = "done"]
             ELSE [tried EXCEPT !.pc = "sleep"]
    /\ UNCHANGED <<state, hist, target, clock, audit, published, prior, budget, tick, aborted, runner, call>>

\* line 65 and the loop's i++
Sleep ==
    /\ twitter.pc = "sleep"
    /\ twitter' = [ twitter EXCEPT
                      !.pc = "call",
                      !.i = twitter.i + 1,
                      !.sleeps = Append(twitter.sleeps, twitter.wait) ]
    /\ UNCHANGED <<state, hist, target, clock, audit, published, prior, budget, tick, aborted, runner, call>>

\* postToTwitter / postThread return {success, ...} (lines 86, 98, 136, 139)
PostReturn ==
    /\ twitter.pc = "done"
    /\ twitter' = Quiet
    /\ UNCHANGED <<state, hist, target, clock, audit, published, prior, budget, tick, aborted, runner, call>>

NextPublisher ==
    \/ \E n \in TextLengths : postToTwitter(n)
    \/ \E lengths \in Threads : postThread(lengths)
    \/ \E answer \in Answers : Attempt(answer)
    \/ Sleep
    \/ PostReturn

\* the platform answers every attempt, and the timer of a sleep fires
SpecPublisher ==
    /\ Init
    /\ [][NextPublisher]_vars
    /\ WF_vars(\E answer \in Answers : Attempt(answer))
    /\ WF_vars(Sleep)

\* ------------------------------------------------------------------------
\* The topic fallback on two repositories
\* ------------------------------------------------------------------------
\* what the user enters in the repository box
TopicInputs == {RemoteRepo, OtherRepo}

\* Two repositories on GitHub with one commit each, no state file yet, and
\* a run followed for MaxTopicPosts posts.
InitTopics ==
    /\ prior = 0
    /\ budget = MaxTopicPosts
    /\ state = DefaultState
    /\ hist = [r \in Repos \cup TopicInputs |->
                 IF r \in TopicInputs THEN << <<"feat:", "login">> >> ELSE <<>>]
    /\ target = RemoteRepo
    /\ clock = 0
    /\ audit = <<>>
    /\ published = <<>>
    /\ tick = [p \in Callers |-> Idle]
    /\ aborted = {}
    /\ twitter = Quiet
    /\ runner = NoRunner
    /\ call = NoCall

NextTopics ==
    \/ \E a \in BOOLEAN, url \in TopicInputs, ok \in BOOLEAN :
          AllIdle /\ ToggleWith(a, url, ok)
    \/ \E env \in Envs : AllIdle /\ TickRun("timer", env)
    \/ TickSave("timer")
    \/ TickLog("timer")
    \/ TickReturn("timer")

SpecTopics == InitTopics /\ [][NextTopics]_vars


\* ------------------------------------------------------------------------
\* The headless runner (scripts/autopilot-v2.ts, scripts/test-repo-files.ts)
\* ------------------------------------------------------------------------
\* the two scripts that hold a runLoop
RunnerScripts == {"autopilot-v2", "test-repo-files"}

\* main up to the first runLoop: with a repository on the command line the
\* engine is switched on for it (autopilot-v2.ts 43-48)
RunnerMain(headOk) ==
    /\ runner.pc = "main"
    /\ state' = IF target # ""
                THEN toggleAutoPilot(state, TRUE, target, headOk)
                ELSE state
    /\ runner' = [runner EXCEPT !.pc = "loop"]
    /\ UNCHANGED <<hist, target, clock, audit, published, prior, budget, tick, aborted, twitter, call>>

\* runLoop with the engine switched off: nothing to do, the next run is
\* scheduled (autopilot-v2.ts 71, 88-98)
RunLoopDisabled ==
    /\ runner.pc = "loop"
    /\ ~state.isActive
    /\ runner' = [runner EXCEPT !.pc = "wait"]
    /\ UNCHANGED <<state, hist, target, clock, audit, published, prior, budget, tick, aborted, twitter, call>>

\* runLoop of test-repo-files.ts outside the posting window: 'return' inside
\* the try block (lines 127-134) leaves runLoop before the setTimeout of
\* line 158, no timer is pending
RunLoopSkip(hour) ==
    /\ runner.pc = "loop"
    /\ state.isActive
    /\ runner.script = "test-repo-files"
    /\ ~getPostTypeForTimeFallback(hour).allowed
    /\ runner' = [runner EXCEPT !.pc = "ended"]
    /\ UNCHANGED <<state, hist, target, clock, audit, published, prior, budget, tick, aborted, twitter, call>>

\* runLoop calls checkAndRunAutoPilot
RunLoopCheck(env) ==
    /\ runner.pc = "loop"
    /\ state.isActive
    /\ runner.script = "test-repo-files" => getPostTypeForTimeFallback(env.hour).allowed
    /\ TickRunBody("timer", env)
    /\ runner' = [runner EXCEPT !.pc = "checking"]

\* the call returned or threw (the catch of lines 94-96): the next run is
\* scheduled
RunLoopSchedule ==
    /\ runner.pc = "checking"
    /\ tick["timer"].pc = "idle"
    /\ runner' = [runner EXCEPT !.pc = "wait"]
    /\ UNCHANGED <<state, hist, target, clock, audit, published, prior, budget, tick, aborted, twitter, call>>

\* CHECK_INTERVAL_MS have passed: setTimeout calls runLoop
RunnerTimer ==
    /\ runner.pc = "wait"
    /\ runner' = [runner EXCEPT !.pc = "loop"]
    /\ UNCHANGED <<state, hist, target, clock, audit, published, prior, budget, tick, aborted, twitter, call>>

\* A runner is started, with or without a repository on its command line,
\* on empty histories and no state file.
InitRunner ==
    /\ prior = 0
    /\ budget = MaxPosts
    /\ state = DefaultState
    /\ hist = [r \in Repos |-> <<>>]
    /\ target \in {"", RemoteRepo}
    /\ clock = 0
    /\ audit = <<>>
    /\ published = <<>>
    /\ tick = [p \in Callers |-> Idle]
    /\ aborted = {}
    /\ twitter = Quiet
    /\ runner \in [pc : {"main"}, script : RunnerScripts]
    /\ call = NoCall

NextRunner ==
    \/ \E msg \in CommitMsgs : AllIdle /\ Push(msg)
    \/ AllIdle /\ AdvanceDay
    \/ \E a \in BOOLEAN, ok \in BOOLEAN : AllIdle /\ runner.pc # "main" /\ Toggle(a, ok)
    \/ \E ok \in BOOLEAN : RunnerMain(ok)
    \/ RunLoopDisabled
    \/ \E hour \in SampleHours : RunLoopSkip(hour)
    \/ \E env \in Envs : AllIdle /\ RunLoopCheck(env)
    \/ TickSave("timer")
    \/ TickLog("timer")
    \/ TickReturn("timer")
    \/ Abort("timer")
    \/ RunLoopSchedule
    \/ RunnerTimer

SpecRunner ==
    /\ InitRunner
    /\ [][NextRunner]_vars
    /\ WF_vars(RunLoopDisabled)
    /\ WF_vars(\E hour \in SampleHours : RunLoopSkip(hour))
    /\ WF_vars(TickSave("timer"))
    /\ WF_vars(TickLog("timer"))
    /\ WF_vars(TickReturn("timer"))
    /\ WF_vars(RunLoopSchedule)
    /\ WF_vars(RunnerTimer)


\* ------------------------------------------------------------------------
\* Switching between targets
\* ------------------------------------------------------------------------
\* what the user enters in the repository box: nothing (the local
\* repository) or one of two repositories on GitHub
SwitchInputs == {"", RemoteRepo, OtherRepo}

\* The local repository and two repositories on GitHub with one commit
\* each, no state file yet; commits are pushed to one of the three.
InitSwitch ==
    /\ prior = 0
    /\ budget = MaxPosts
    /\ state = DefaultState
    /\ hist = [r \in Repos \cup {OtherRepo} |-> << <<"feat:", "login">> >>]
    /\ target \in SwitchInputs
    /\ clock = 0
    /\ audit = <<>>
    /\ published = <<>>
    /\ tick = [p \in Callers |-> Idle]
    /\ aborted = {}
    /\ twitter = Quiet
    /\ runner = NoRunner
    /\ call = NoCall

NextSwitch ==
    \/ \E msg \in CommitMsgs : Push(msg)
    \/ \E a \in BOOLEAN, url \in SwitchInputs, ok \in BOOLEAN : ToggleWith(a, url, ok)

SpecSwitch == InitSwitch /\ [][NextSwitch]_vars

\* the dashboard flips the switch at any moment, a timer tick in flight or not
NextDuring ==
    \/ \E msg \in CommitMsgs : AllIdle /\ Push(msg)
    \/ \E a \in BOOLEAN, url \in SwitchInputs, ok \in BOOLEAN : ToggleWith(a, url, ok)
    \/ \E env \in Envs : AllIdle /\ TickRun("timer", env)
    \/ TickSave("timer")
    \/ TickLog("timer")
    \/ TickReturn("timer")

SpecDuring == InitSwitch /\ [][NextDuring]_vars

\* the engine watches o/r after a hundred posts, less one or not, about
\* commits of the repository it watched before
EarlierPosted(k) == [i \in 1..k |-> <<OtherRepo, i>>]

InitCap ==
    /\ prior = 0
    /\ budget = MaxPosts
    /\ \E k \in {POSTED_COMMITS_CAP - 1, POSTED_COMMITS_CAP} :
          state = [DefaultState EXCEPT !.isActive = TRUE,
                                       !.monitoredRepo = RemoteRepo,
                                       !.monitoringMode = "remote",
                                       !.postedCommits = EarlierPosted(k)]
    /\ hist = [r \in Repos |-> <<>>]
    /\ target = RemoteRepo
    /\ clock = 0
    /\ audit = <<>>
    /\ published = <<>>
    /\ tick = [p \in Callers |-> Idle]
    /\ aborted = {}
    /\ twitter = Quiet
    /\ runner = NoRunner
    /\ call = NoCall

NextCap ==
    \/ \E msg \in CommitMsgs : AllIdle /\ Push(msg)
    \/ \E env \in Envs : AllIdle /\ TickRun("timer", env)
    \/ TickSave("timer")
    \/ TickLog("timer")
    \/ TickReturn("timer")

SpecCap == InitCap /\ [][NextCap]_vars

\* ------------------------------------------------------------------------
\* The scorer and the schedule oracle, called on their own
\* ------------------------------------------------------------------------
\* descriptions handed to the scorer: one prefix or two in an entry, in
\* lower case or not, and entries without any
ScoreMsgs ==
    { <<"feat:", "login">>, <<"FEAT:", "perf:">>, <<"Perf:", "fix:">>,
      <<"Fix:", "refactor:">>, <<"Refactor:", "db">>, <<"chore:", "deps">>,
      <<"login">> }

MaxScored == 2

RECURSIVE ListsOf(_, _)
ListsOf(S, n) ==
    IF n = 0 THEN { <<>> }
    ELSE ListsOf(S, n - 1)
           \cup { Append(l, m) : l \in { k \in ListsOf(S, n - 1) : Len(k) = n - 1 }, m \in S }

\* the hours getHours() returns
Hours == 0..23

InitCalls ==
    /\ prior = 0
    /\ budget = MaxPosts
    /\ state = DefaultState
    /\ hist = [r \in Repos |-> <<>>]
    /\ target = ""
    /\ clock = 0
    /\ audit = <<>>
    /\ published = <<>>
    /\ tick = [p \in Callers |-> Idle]
    /\ aborted = {}
    /\ twitter = Quiet
    /\ runner = NoRunner
    /\ \/ call \in [fn : {"calculateSignificance"}, arg : ListsOf(ScoreMsgs, MaxScored), ret : {<<>>}]
       \/ call \in [fn : {"getPostTypeForTime"}, arg : { <<h>> : h \in Hours }, ret : {<<>>}]

Score ==
    /\ call.fn = "calculateSignificance"
    /\ Len(call.ret) < 2
    /\ call' = [call EXCEPT !.ret = Append(@, calculateSignificance(call.arg))]
    /\ UNCHANGED <<state, hist, target, clock, audit, published, prior, budget, tick, aborted, twitter, runner>>

Ask ==
    /\ call.fn = "getPostTypeForTime"
    /\ Len(call.ret) < 2
    /\ call' = [call EXCEPT !.ret = Append(@, getPostTypeForTime(call.arg[1]))]
    /\ UNCHANGED <<state, hist, target, clock, audit, published, prior, budget, tick, aborted, twitter, runner>>

NextCalls == Score \/ Ask

SpecCalls == InitCalls /\ [][NextCalls]_vars


\* PromptCard's interval (runCheck), its Force-scan button (handleForceScan),
\* the test-autopilot route and the headless loop all call
\* checkAndRunAutoPilot directly; nothing makes one wait for another.
\* (Explored for a remote repository.)
InitOverlap == InitRepeat /\ target = RemoteRepo

NextOverlap ==
    \/ \E msg \in CommitMsgs : AllIdle /\ Push(msg)
    \/ AllIdle /\ AdvanceDay
    \/ \E a \in BOOLEAN, ok \in BOOLEAN : AllIdle /\ Toggle(a, ok)
    \/ \E p \in Callers, env \in Envs : TickRun(p, env)
    \/ \E p \in Callers : TickSave(p)
    \/ \E p \in Callers : TickLog(p)
    \/ \E p \in Callers : TickReturn(p)

SpecOverlap == InitOverlap /\ [][NextOverlap]_vars

\* the timer keeps firing and a run that started goes on to its end
FairSpec ==
    /\ Spec
    /\ WF_vars(\E env \in Envs : AllIdle /\ TickRun("timer", env))
    /\ WF_vars(TickSave("timer"))
    /\ WF_vars(TickLog("timer"))
    /\ WF_vars(TickReturn("timer"))

\* ------------------------------------------------------------------------
\* Properties
\* ------------------------------------------------------------------------
PostSuccessAt(i) == audit[i].action_type = "post_success"

\* the posts counted for day d by the day the engine derived for them
PostsOn(d) ==
    (IF d = 0 THEN prior ELSE 0)
    + Cardinality({ i \in 1..Len(published) : published[i].day = d })

SameSubject(e, f) ==
    \/ e.commits \cap f.commits # {}
    \/ e.topic # "" /\ e.topic = f.topic

\* caller p has just run checkAndRunAutoPilot up to its last external call
JustRan(p) == tick[p].pc = "idle" /\ tick'[p].pc # "idle"

\* C1: the audit log never holds two post_success records with the same
\* commit marker.
C1_OnePostSuccessPerMarker ==
    \A i, j \in 1..Len(audit) :
        (i # j /\ PostSuccessAt(i) /\ PostSuccessAt(j)
               /\ audit[i].commit_hash # NoHash)
            => audit[i].commit_hash # audit[j].commit_hash

\* C2: no commit, and no topic, is the subject of two successful publishes.
C2_NoSubjectPublishedTwice ==
    \A i, j \in 1..Len(published) :
        i # j => ~SameSubject(published[i], published[j])

\* C3: the number of successful publishes on a day never exceeds the daily
\* limit.
C3_QuotaCeiling == \A d \in Days : PostsOn(d) <= DAILY_POST_LIMIT

\* the limit is reached for the day and a tick with a post to make was
\* turned away
C3_Witness ==
    /\ PostsOn(clock) = DAILY_POST_LIMIT
    /\ state.postsToday = DAILY_POST_LIMIT
    /\ tick["timer"].pc = "return"
    /\ tick["timer"].result = "Daily limit reached"

\* C4: at most one execution of checkAndRunAutoPilot is between its state
\* read and its state write.
C4_OneTickInFlight ==
    Cardinality({ p \in Callers : tick[p].pc = "save" }) <= 1

\* C5: the persisted postsToday moves only in the write of a run whose
\* publish succeeded, and that same write carries the marker advance or the
\* new postedCommits / postedFeatures entry; neither appears without the other.
Counted(s, t) ==
    \/ t.postsToday = s.postsToday + 1
    \/ t.postsToday = 1 /\ t.lastPostDate # s.lastPostDate

Recorded(s, t) ==
    \/ Len(t.postedCommits) = Len(s.postedCommits) + 1
         /\ t.postedFeatures = s.postedFeatures
    \/ Len(t.postedFeatures) = Len(s.postedFeatures) + 1
         /\ t.postedCommits = s.postedCommits

C5_CountAndMarkerInOneWrite ==
    [][ ( \/ state'.postsToday # state.postsToday
          \/ state'.postedCommits # state.postedCommits
          \/ state'.postedFeatures # state.postedFeatures )
        => /\ \E p \in Callers :
                tick[p].pc = "save" /\ tick[p].posted /\ tick'[p].pc = "log"
           /\ Counted(state, state')
           /\ Recorded(state, state') ]_vars

\* a counted post has just been written
C5_Witness ==
    /\ tick["timer"].pc = "log"
    /\ tick["timer"].posted
    /\ state = tick["timer"].write[1]
    /\ state.postsToday = 1
    /\ state.postedCommits # <<>>

\* C6: lastCommitHash never moves back to an older commit (nor to none).
C6_MarkerMonotone ==
    [][ state.lastCommitHash # NoHash
        => /\ state'.lastCommitHash # NoHash
           /\ state'.lastCommitHash[1] = state.lastCommitHash[1]
           /\ state'.lastCommitHash[2] >= state.lastCommitHash[2] ]_vars

\* a tick has moved the marker from the first commit to the second
C6_Witness ==
    /\ tick["timer"].pc \in {"log", "return"}
    /\ tick["timer"].write # <<>>
    /\ state = tick["timer"].write[1]
    /\ state.lastCommitHash = <<TargetRepo, 2>>
    /\ state.postedCommits = <<>> \/ state.postedCommits[1] # <<TargetRepo, 1>>

\* C8: re-running after a run was cut short never publishes what that run
\* had already published.
C8_RetryNeverRepublishes ==
    \A i \in aborted : \A j \in 1..Len(published) :
        j > i => ~SameSubject(published[i], published[j])

\* C9: with isActive = false a tick returns 'inactive' and does nothing else.
C9_InactiveNoEffect ==
    [][ \A p \in Callers :
          (JustRan(p) /\ ~state.isActive)
          => /\ tick'[p].result = "inactive"
             /\ tick'[p].calls = {}
             /\ tick'[p].pc = "return"
             /\ tick'[p].write = <<>> /\ tick'[p].post = <<>>
             /\ UNCHANGED <<state, audit, published>> ]_vars

C9_Witness ==
    /\ ~state.isActive
    /\ tick["timer"].pc = "return"
    /\ tick["timer"].result = "inactive"
    /\ hist[TargetRepo] # <<>>

\* C10: a tick in which the synthesizer or the publisher fails writes no
\* state.
C10_FailurePersistsNothing ==
    [][ \A p \in Callers :
          (JustRan(p) /\ tick'[p].result \in {"gen_failed", "post_failed"})
          => /\ tick'[p].write = <<>>
             /\ tick'[p].pc = "return"
             /\ state' = state ]_vars

\* a publish failed on a day other than the one of the last counted post
C10_Witness ==
    /\ tick["timer"].pc = "return"
    /\ tick["timer"].result = "post_failed"
    /\ state.isActive
    /\ state.lastPostDate # clock

\* ------------------------------------------------------------------------
\* C7
\* ------------------------------------------------------------------------
CommitIds == { <<r, i>> : r \in Repos, i \in 1..MaxCommits }

MonitoredName(st) ==
    IF st.monitoringMode = "remote" /\ st.monitoredRepo # NoRepo
    THEN st.monitoredRepo ELSE LocalName

PublishedCommit(c) == \E k \in 1..Len(published) : c \in published[k].commits

Exists(c) == c[2] <= Len(hist[c[1]])

\* the engine is active and monitors the repository of c
Watching(c) == state.isActive /\ c[1] = MonitoredName(state)

\* c is not there yet, and the engine is active on its repository from now on
ActiveBefore(c) == ~Exists(c) /\ []Watching(c)

\* c is there and is not noise
NonNoise(c) == Exists(c) /\ isImportant(hist[c[1]][c[2]])

\* a tick of the active engine in which the window is open, quota is left and
\* every collaborator answers
GoodRun ==
    /\ state.isActive
    /\ QuotaLeft(ResetQuota(state, clock))
    /\ \E env \in Envs :
          /\ env.headOk /\ env.commitsOk /\ env.dbOk /\ env.filesOk
          /\ env.genOk /\ env.postOk /\ env.hour = 10
          /\ TickRun("timer", env)

RunFrom(env) == checkAndRunAutoPilot(state, env, clock, Later(env))

\* a run started now with inputs env gets past the switch and the head
\* fetch and finds entries beyond the marker
FindsNew(env) ==
    /\ state.isActive
    /\ currentHashOf(state, env) # NoHash
    /\ currentHashOf(state, env) # state.lastCommitHash
    /\ newCommitsOf(state, env) # <<>>

\* the entries such a run is left with after the noise filter
Surviving(env) == Messages(importantCommitsOf(newCommitsOf(state, env)))

\* today's count as the run sees it
CountToday == ResetQuota(state, clock).postsToday

C12_NoiseOnlyAdvancesMarker ==
    /\ (AllIdle /\ state.isActive) =>
         \A env \in Envs :
            (FindsNew(env) /\ Surviving(env) = <<>>)
            => /\ RunFrom(env).pub = <<>>
               /\ RunFrom(env).synthCalls = 0
               /\ RunFrom(env).postCalls = 0
               /\ RunFrom(env).success
               /\ RunFrom(env).result = "Skipped noise commits"
               /\ RunFrom(env).write =
                     << [state EXCEPT !.lastCommitHash = currentHashOf(state, env)] >>
    /\ \A p \in Callers :
         (tick[p].pc = "save" /\ tick[p].result = "Skipped noise commits")
         => /\ ~tick[p].posted
            /\ tick[p].success
            /\ tick[p].write =
                  << [state EXCEPT !.lastCommitHash = HeadOf(MonitoredName(state))] >>

\* a noise-only batch was skipped and the marker is now at the head, past
\* where it was
C12_Witness ==
    /\ tick["timer"].pc = "return"
    /\ tick["timer"].result = "Skipped noise commits"
    /\ state.lastCommitHash = HeadOf(MonitoredName(state))
    /\ state.lastCommitHash # NoHash
    /\ ~isImportant(Msg(state.lastCommitHash))
    /\ published = <<>>

\* a batching run writes nothing and publishes nothing
BatchingRun(env) ==
    /\ RunFrom(env).result = "Batching"
    /\ RunFrom(env).success
    /\ RunFrom(env).synthCalls = 0
    /\ RunFrom(env).postCalls = 0
    /\ RunFrom(env).write = <<>>
    /\ RunFrom(env).pub = <<>>
    /\ RunFrom(env).pre = <<>>
    /\ RunFrom(env).post = <<>>

C14_DocsTypoIsFilteredOut ==
    \A env \in Envs :
         ( /\ AllIdle
           /\ FindsNew(env)
           /\ Len(newCommitsOf(state, env)) = 2
           /\ Range(Messages(newCommitsOf(state, env))) = ScenarioMsgs )
         => /\ Surviving(env) = << <<"fix:", "null", "pointer">> >>
            /\ calculateSignificance(Surviving(env)) = 1
            /\ ~hasGoldenTrigger(Surviving(env))
            /\ RunFrom(env).result = "Batching"
            /\ RunFrom(env).write = <<>>

\* C14 (as the code has it): for the new entries "fix: null pointer" and
\* "docs: typo" the noise filter of the normal path leaves both (count 2,
\* score 1, no golden trigger), and the run reports batching, writes
\* nothing and publishes nothing.
C14_DocsTypoSurvivesAndBatches ==
    \A env \in Envs :
         ( /\ AllIdle
           /\ FindsNew(env)
           /\ Len(newCommitsOf(state, env)) = 2
           /\ Range(Messages(newCommitsOf(state, env))) = ScenarioMsgs )
         => /\ Surviving(env) = Messages(newCommitsOf(state, env))
            /\ Len(Surviving(env)) = 2
            /\ calculateSignificance(Surviving(env)) = 1
            /\ ~hasGoldenTrigger(Surviving(env))
            /\ BatchingRun(env)

\* the run that found the two entries has reported batching
C14_Witness ==
    /\ tick["timer"].pc = "return"
    /\ tick["timer"].result = "Batching"
    /\ \E env \in Envs :
          /\ FindsNew(env)
          /\ Len(newCommitsOf(state, env)) = 2
          /\ Range(Messages(newCommitsOf(state, env))) = ScenarioMsgs

\* the entries of the monitored repository beyond the marker, newest first
PendingEntries ==
    LET r == MonitoredName(state)
        m == state.lastCommitHash
        from == IF m = NoHash \/ m[1] # r THEN 0 ELSE m[2]
    IN  [i \in 1..(Len(hist[r]) - from) |-> <<r, Len(hist[r]) - i + 1>>]

PendingImportant == Messages(importantCommitsOf(PendingEntries))

C16_RateLimitedRunWritesNothing ==
    /\ (AllIdle /\ state.isActive /\ CountToday >= DAILY_POST_LIMIT) =>
         \A env \in Envs :
            ( /\ FindsNew(env)
              /\ Surviving(env) # <<>>
              /\ ~BelowThreshold(Surviving(env)) )
            => /\ RunFrom(env).result = "Daily limit reached"
               /\ RunFrom(env).success
               /\ RunFrom(env).synthCalls = 0
               /\ RunFrom(env).postCalls = 0
               /\ RunFrom(env).pub = <<>>
               /\ RunFrom(env).write = <<>>
    /\ \A p \in Callers :
         tick[p].result = "Daily limit reached"
         => /\ tick[p].pc = "return"
            /\ tick[p].write = <<>>
            /\ ~tick[p].posted

\* a golden batch waits behind the marker on a day whose quota is used up,
\* and the run that found it was turned away
C16_Witness ==
    /\ tick["timer"].pc = "return"
    /\ tick["timer"].result = "Daily limit reached"
    /\ state.postsToday >= DAILY_POST_LIMIT
    /\ state.lastPostDate = clock
    /\ state.lastCommitHash # HeadOf(MonitoredName(state))
    /\ hasGoldenTrigger(PendingImportant)

\* ------------------------------------------------------------------------
\* Backfill
\* ------------------------------------------------------------------------
\* the entries of the history window of the monitored repository that are
\* not in postedCommits and do not start with 'chore:', 'wip:' or 'merge'
UnpostedNonNoise ==
    { c \in Range(LastCommits(MonitoredName(state), BACKFILL_FETCH_LIMIT)) :
        /\ c \notin Range(state.postedCommits)
        /\ isImportant(Msg(c)) }

\* C17: the entry a backfill run publishes is the oldest entry of the
\* history window that is not in postedCommits and is not noise (does not
\* start with 'chore:', 'wip:' or 'merge'): no older such entry exists.
C17_BackfillTakesOldestNonNoise ==
    (AllIdle /\ state.isActive) =>
      \A env \in Envs :
         (RunFrom(env).pub # <<>> /\ RunFrom(env).pub[1].path = "backfill")
         => \A c \in RunFrom(env).pub[1].commits :
              /\ c \in UnpostedNonNoise
              /\ \A d \in UnpostedNonNoise : d[2] >= c[2]

\* the entries of the history window that are not in postedCommits and pass
\* the filter of the backfill path
UnpostedInteresting ==
    { c \in Range(LastCommits(MonitoredName(state), BACKFILL_FETCH_LIMIT)) :
        /\ c \notin Range(state.postedCommits)
        /\ isInteresting(Msg(c)) }

\* C17 (as the code has it): the entry a backfill run publishes is the
\* oldest entry of the history window that is not in postedCommits, does
\* not start with 'chore:', 'wip:' or 'merge' and does not contain 'typo'
\* or 'formatting'.
C17_BackfillTakesOldestInteresting ==
    (AllIdle /\ state.isActive) =>
      \A env \in Envs :
         (RunFrom(env).pub # <<>> /\ RunFrom(env).pub[1].path = "backfill")
         => /\ Cardinality(RunFrom(env).pub[1].commits) = 1
            /\ \A c \in RunFrom(env).pub[1].commits :
                  /\ c \in UnpostedInteresting
                  /\ \A d \in UnpostedInteresting : d[2] >= c[2]

\* backfill published the second entry of a history whose first entry is
\* 'docs: typo', never published
C17_Witness ==
    /\ published # <<>>
    /\ published[Len(published)].path = "backfill"
    /\ \E r \in Repos :
          /\ published[Len(published)].commits = { <<r, 2>> }
          /\ Len(hist[r]) >= 2
          /\ hist[r][1] = <<"docs:", "typo">>

\* ------------------------------------------------------------------------
\* Two runs in a row
\* ------------------------------------------------------------------------
\* the state file after a run that returned out
StateAfter(out) == IF out.write = <<>> THEN state ELSE out.write[1]

\* what a second run returns that starts right after a run that returned
\* out, same day, same inputs, nothing pushed in between (used for first
\* runs that published nothing, so that the audit log the second one reads
\* is the one the first one read)
SecondRun(out, env) == checkAndRunAutoPilot(StateAfter(out), env, clock, clock)

\* C18: a second run right after a run, repository, quota and window as
\* they were, leaves the state file as the first run left it.
C18_SecondTickChangesNothing ==
    AllIdle =>
      \A env \in Envs :
         ~env.cross =>
           LET first == RunFrom(env)
           IN  first.pub = <<>> => SecondRun(first, env).write = <<>>

\* C18 (as the code has it): a run writes the state file only when it
\* publishes or skips a noise-only batch; so a second run right after a run
\* that published nothing, repository and inputs as they were, leaves the
\* state file as the first run left it unless it publishes (from the
\* backlog or about a topic); and after a first run that wrote nothing the
\* second run returns what the first returned.
C18_SecondTickWritesOnlyToPublish ==
    /\ \A p \in Callers :
         tick[p].write # <<>> =>
            tick[p].posted \/ tick[p].result = "Skipped noise commits"
    /\ (AllIdle /\ state.isActive) =>
         \A env \in Envs :
            ~env.cross =>
              LET first == RunFrom(env)
                  second == SecondRun(first, env)
              IN  first.pub = <<>> =>
                    /\ second.pub = <<>> => second.write = <<>>
                    /\ second.result # "Skipped noise commits"
                    /\ first.write = <<>> => second = first

\* a noise skip has just been saved, and the run that comes next would
\* publish from the backlog
C18_Witness ==
    /\ tick["timer"].pc = "return"
    /\ tick["timer"].result = "Skipped noise commits"
    /\ state.lastCommitHash = HeadOf(MonitoredName(state))
    /\ UnpostedInteresting # {}
    /\ \E env \in Envs :
          /\ RunFrom(env).pub # <<>>
          /\ RunFrom(env).pub[1].path = "backfill"

\* ------------------------------------------------------------------------
\* The state file
\* ------------------------------------------------------------------------
\* C19: while a run writes the state file, what getAutoPilotState returns
\* is the complete state the write replaces or the complete state it
\* writes, never the default of an unreadable file; and no run is told that
\* the engine is off while the switch stands on in the state being written.
C19_ReaderSeesOldOrNewState ==
    /\ \A p \in Callers :
         tick[p].pc = "saving" =>
            state = tick[p].before[1] \/ state = tick[p].write[1]
    /\ (tick["timer"].pc = "saving" /\ tick["timer"].write[1].isActive) =>
         tick["manual"].result # "inactive"

\* ------------------------------------------------------------------------
\* The return contract
\* ------------------------------------------------------------------------
\* the results of a run in which a collaborator failed: the repository could
\* not be read, the analysis or the synthesizer returned nothing, the
\* publisher refused
FailedResults ==
    { "no_remote_git", "no_git", "no_git_history", "no_features",
      "no_code_extracted", "gen_failed", "post_failed" }

\* the results of a run that found nothing to do
NothingToDoResults ==
    { "No new commits", "Skipped noise commits", "Batching",
      "Daily limit reached", "Outside active hours.", "Outside posting hours",
      "No interesting backfill", "outside_window", "no_more_features" }

\* C20: a run of an active engine returns success = false only when a
\* collaborator failed, and returns success = true whenever it found
\* nothing to do, whichever path it took.
C20_FailureFlagMeansFailure ==
    \A p \in Callers :
       (tick[p].pc # "idle" /\ tick[p].result # "inactive") =>
          /\ ~tick[p].success => tick[p].result \in FailedResults
          /\ tick[p].result \in NothingToDoResults => tick[p].success

\* C21: a run of checkAndRunAutoPilot ends only by returning a result
\* object to its caller, whichever external call fails and whatever the
\* synthesizer's data looks like: no run ends in an exception.
C21_TickAlwaysReturns ==
    [][ \A p \in Callers :
          (tick[p].pc # "idle" /\ tick'[p].pc = "idle")
          => tick[p].pc = "return" ]_vars

\* ------------------------------------------------------------------------
\* Switching the engine on
\* ------------------------------------------------------------------------
\* this step is toggleAutoPilot(true, target) on a remote repository, and
\* the head fetch of the toggle answers iff ok
JustEnabled(ok) ==
    /\ UNCHANGED <<hist, audit, clock, tick>>
    /\ AllIdle
    /\ state'.isActive
    /\ Remote(state')
    /\ state' = toggleAutoPilot(state, TRUE, target, ok)

\* the runs that can come first after this step, nothing pushed in between:
\* the run with inputs env on the state the step leaves
FirstRunAfter(env) == checkAndRunAutoPilot(state', env, clock, clock)

AllAnswer(env) ==
    /\ env.headOk /\ env.commitsOk /\ env.dbOk /\ env.filesOk
    /\ env.genOk /\ env.postOk /\ ~env.cross

AtRemoteHead ==
    /\ state.isActive
    /\ Remote(state)
    /\ state.lastCommitHash # NoHash
    /\ state.lastCommitHash = HeadOf(state.monitoredRepo)

NameSpellings ==
    LET groups == { matchGithubUrl(pieces) : pieces \in InputSpellings }
                    \cup { matchOwnerRepo(pieces) : pieces \in InputSpellings }
    IN  groups \cup { replaceFirst(m, ".git") : m \in groups }

\* repo is an owner, a '/' and a name
HoldsOwnerName(repo) ==
    \E pieces \in NameSpellings :
        /\ pieces # <<>>
        /\ Join(pieces) = repo
        /\ matchOwnerRepo(pieces) = pieces

\* the repository a valid entry names
NamedRepo(repoUrl) ==
    CASE repoUrl = "o/r" -> "o/r"
      [] repoUrl = "p/q" -> "p/q"
      [] repoUrl = "o/r.git" -> "o/r"
      [] repoUrl = "https://github.com/o/r" -> "o/r"
      [] repoUrl = "https://github.com/o/r/issues" -> "o/r"
      [] repoUrl = "o/o.github.io" -> "o/o.github.io"
      [] OTHER -> NoRepo

\* C23: after any sequence of toggleAutoPilot calls from the default state
\* monitoringMode is 'remote' exactly when monitoredRepo holds an owner/name
\* pair; a call with a valid owner/repo string or github.com URL leaves
\* remote mode with the repository the entry names, and a call with an
\* empty repoUrl leaves local mode with monitoredRepo cleared.
C23_TargetWellFormed ==
    /\ []( /\ state.monitoringMode \in {"local", "remote"}
           /\ state.monitoringMode = "remote" <=> state.monitoredRepo # NoRepo
           /\ state.monitoredRepo # NoRepo => HoldsOwnerName(state.monitoredRepo) )
    /\ [][ \A a \in BOOLEAN, url \in RepoInputs, ok \in BOOLEAN :
              ToggleWith(a, url, ok)
              => /\ NamedRepo(url) # NoRepo =>
                      /\ state'.monitoringMode = "remote"
                      /\ state'.monitoredRepo = NamedRepo(url)
                 /\ url = "" =>
                      /\ state'.monitoringMode = "local"
                      /\ state'.monitoredRepo = NoRepo ]_vars

\* ------------------------------------------------------------------------
\* The publisher's retry loop and its character ceiling
\* ------------------------------------------------------------------------
\* C24: autoRetry runs the operation at most maxRetries + 1 times and then
\* ends; it sleeps only between two attempts and only a wait of at most 15
\* seconds; on a rate-limit answer whose wait exceeds 15 seconds, or that
\* carries no reset time, it fails at once without sleeping; and it never
\* retries after an error that is not a rate limit.
C24_RetryIsBounded ==
    /\ []( /\ twitter.attempts <= MAX_RETRIES + 1
           /\ \A k \in 1..Len(twitter.sleeps) : twitter.sleeps[k] <= MAX_WAIT
           /\ twitter.pc = "done" => Len(twitter.sleeps) = twitter.attempts - 1
           /\ twitter.pc = "sleep" => Len(twitter.sleeps) = twitter.attempts - 1
           /\ twitter.pc = "call" => Len(twitter.sleeps) = twitter.attempts
           /\ (twitter.pc \in {"sleep", "call"} /\ twitter.attempts > 0)
                 => twitter.last = "429" /\ twitter.wait <= MAX_WAIT
           /\ (twitter.last = "429" /\ twitter.wait > MAX_WAIT)
                 => twitter.pc = "done" /\ ~twitter.success
           /\ twitter.last = "other"
                 => twitter.pc = "done" /\ ~twitter.success )
    /\ [][ (twitter.pc = "call" /\ twitter'.last = "429" /\ twitter'.wait > MAX_WAIT)
            => twitter'.pc = "done" /\ twitter'.sleeps = twitter.sleeps ]_vars
    /\ (twitter.pc = "call") ~> (twitter.pc = "done")

\* the platform answered 'rate limit' three times with short waits: the
\* loop slept twice and gave the third error back
C24_Witness ==
    /\ twitter.pc = "done"
    /\ ~twitter.success
    /\ twitter.attempts = MAX_RETRIES + 1
    /\ Len(twitter.sleeps) = MAX_RETRIES
    /\ twitter.last = "429"
    /\ twitter.wait = MAX_WAIT

\* the text of the call in progress that the k-th handed text was made from
ContentOf(k) == twitter.content[((k - 1) % Len(twitter.content)) + 1]

\* C25: every text postToTwitter and postThread hand to the platform client
\* has length at most 280: a text of length at most 280 is handed over as
\* it is, a longer one as its first 277 characters followed by '...'.
C25_HandedTextsWithinLimit ==
    \A k \in 1..Len(twitter.handed) :
        LET h == twitter.handed[k]
            c == ContentOf(k)
        IN  /\ Len(h) <= 280
            /\ Len(c) <= 280 => h = c
            /\ Len(c) > 280 =>
                  /\ Len(h) = 280
                  /\ \A j \in 1..277 : h[j] = c[j]
                  /\ \A j \in 278..280 : h[j] = "."

\* a thread of a short and an overlong text went out, the second cut
C25_Witness ==
    /\ twitter.pc = "done"
    /\ twitter.success
    /\ twitter.op = "thread"
    /\ Len(twitter.handed) = 2
    /\ Len(twitter.content[1]) = 1
    /\ Len(twitter.content[2]) = 281
    /\ twitter.handed[1] = twitter.content[1]
    /\ Len(twitter.handed[2]) = 280
    /\ twitter.handed[2][280] = "."

\* ------------------------------------------------------------------------
\* Backfill and the topic fallback
\* ------------------------------------------------------------------------
\* a run started now with inputs env gets past the switch and the head
\* fetch, finds nothing new (lines 188-190) and has quota left (197-200):
\* it calls backfillHistoricalCommits
EntersBackfill(env) ==
    /\ state.isActive
    /\ currentHashOf(state, env) # NoHash
    /\ \/ currentHashOf(state, env) = state.lastCommitHash
       \/ newCommitsOf(state, env) = <<>>
    /\ QuotaLeft(ResetQuota(state, clock))

\* what postAboutCodeFeature returns (code-feature-fallback.ts 292-493)
TopicFallbackResults ==
    { "local_repo", "no_features", "no_more_features", "outside_window",
      "no_code_extracted", "gen_failed", "post_failed", "posted" }

\* C26: a run that enters backfill and finds in the history window no entry
\* that is both unposted and interesting (none unposted at all, or only
\* noise left unposted) goes on to the topic fallback in the same run: what
\* it returns is what postAboutCodeFeature returns.
C26_ExhaustedWindowGoesToFallback ==
    AllIdle =>
      \A env \in Envs :
         (EntersBackfill(env) /\ env.commitsOk /\ UnpostedInteresting = {})
         => RunFrom(env).result \in TopicFallbackResults

\* ------------------------------------------------------------------------
\* The posting window
\* ------------------------------------------------------------------------
\* what a run returns that was turned away by the schedule: by the normal
\* path (autopilot-core.ts 273-277), by backfill (556-560), by the topic
\* fallback (code-feature-fallback.ts 335-339)
OutsideWindowResults ==
    { "Outside active hours.", "Outside posting hours", "outside_window" }

\* the schedule the path that returns result asks
ScheduleOf(result, hour) ==
    IF result = "outside_window"
    THEN getPostTypeForTimeFallback(hour)
    ELSE getPostTypeForTime(hour)

\* the run RunFrom(env) would be at another hour of the day
RunAt(env, hour) ==
    checkAndRunAutoPilot(state, [env EXCEPT !.hour = hour], clock, Later(env))

\* C27: at an hour at which the schedule does not allow posting, a run
\* calls neither synthesizer nor publisher and publishes nothing, on the
\* normal path (a batch that is ready, quota left, returns 'Outside active
\* hours.'), in backfill (an unposted interesting entry, returns 'Outside
\* posting hours') and in the topic fallback ('outside_window') alike; a run
\* turned away by the schedule writes neither state file nor audit record,
\* so marker, count and posted lists stay as they were and the same run at
\* an allowed hour calls the publisher for the content left pending.
C27_ClosedWindowPublishesNothing ==
    /\ (AllIdle /\ state.isActive) =>
         \A env \in Envs :
            Reads(state, env) =>
            LET out == RunFrom(env)
            IN  /\ ~getPostTypeForTime(env.hour).allowed
                   => /\ out.postCalls = 0
                      /\ out.synthCalls = 0
                      /\ out.pub = <<>>
                      /\ "publisher" \notin out.calls
                      /\ ( /\ FindsNew(env)
                           /\ Surviving(env) # <<>>
                           /\ ~BelowThreshold(Surviving(env))
                           /\ CountToday < DAILY_POST_LIMIT )
                         => out.result = "Outside active hours."
                      /\ ( /\ EntersBackfill(env)
                           /\ env.commitsOk
                           /\ UnpostedInteresting # {} )
                         => out.result = "Outside posting hours"
                      /\ out.result \in TopicFallbackResults
                         => out.result \in { "local_repo", "no_features",
                                             "no_more_features", "outside_window" }
                /\ out.result \in OutsideWindowResults
                   => /\ ~ScheduleOf(out.result, env.hour).allowed
                      /\ out.postCalls = 0
                      /\ out.pub = <<>>
                      /\ out.write = <<>>
                      /\ out.pre = <<>>
                      /\ out.post = <<>>
                      /\ \A hour \in SampleHours :
                            ( /\ ScheduleOf(out.result, hour).allowed
                              /\ env.filesOk )
                            => RunAt(env, hour).postCalls = 1
    /\ \A p \in Callers :
         tick[p].result \in OutsideWindowResults
         => /\ tick[p].pc = "return"
            /\ tick[p].write = <<>>
            /\ tick[p].post = <<>>
            /\ tick[p].postCalls = 0
            /\ ~tick[p].posted

\* a run was turned away by the schedule with a feature commit waiting
\* behind the marker, and the state file is as the toggle left it
C27_Witness ==
    /\ tick["timer"].pc = "return"
    /\ tick["timer"].result = "Outside active hours."
    /\ state.isActive
    /\ state.lastCommitHash # HeadOf(MonitoredName(state))
    /\ hasGoldenTrigger(PendingImportant)
    /\ state.postsToday = 0
    /\ published = <<>>

\* ------------------------------------------------------------------------
\* The audit log of a failed publish
\* ------------------------------------------------------------------------
IsPostFail(rec) == rec.action_type = "post_fail"

\* C28: a run that returns post_failed, on whichever path the publisher
\* refused, has written exactly one post_fail record to the audit log.
C28_FailedPublishIsAudited ==
    (AllIdle /\ state.isActive) =>
      \A env \in Envs :
         (Reads(state, env) /\ RunFrom(env).result = "post_failed")
         => Len(SelectSeq(RunFrom(env).pre, IsPostFail)) = 1

\* ------------------------------------------------------------------------
\* The reference marker of remote mode
\* ------------------------------------------------------------------------
\* lines 163-164: the marker of the last post_success record of the audit
\* log when the log returns one, the marker of the state file otherwise
ReferenceMarker(env) ==
    LET dbLastHash == getLastPostedCommit(state.monitoredRepo, env.dbOk)
    IN  IF dbLastHash # NoHash THEN dbLastHash ELSE state.lastCommitHash

IsGenerate(rec) == rec.action_type = "generate"

\* the run went on to STEP 2 (lines 214-469) with the entries it fetched:
\* it stopped at the noise filter, the threshold, the quota or the window,
\* or it asked for text (the 'generate' record of the normal path)
TookNewCommits(out) ==
    \/ out.result \in { "Skipped noise commits", "Batching",
                        "Daily limit reached", "Outside active hours." }
    \/ SelectSeq(out.pre, IsGenerate) # <<>>
    \/ (out.pub # <<>> /\ out.pub[1].path = "normal")

\* C29: a run in remote mode that observes a head takes the head as
\* unchanged exactly when it equals the reference marker (the audit log's
\* last post_success marker for the repository, the local lastCommitHash
\* when the log returns none): it fetches descriptions only when the head
\* differs from the reference marker, and with descriptions retrieved it
\* goes on with them as new entries; when the head equals the reference
\* marker it goes to the 'no new commits' branch.
C29_OneReferenceMarker ==
    (AllIdle /\ state.isActive /\ Remote(state)) =>
      \A env \in Envs :
         (Reads(state, env) /\ currentHashOf(state, env) # NoHash) =>
            /\ newCommitsOf(state, env) # <<>>
               => currentHashOf(state, env) # ReferenceMarker(env)
            /\ currentHashOf(state, env) = ReferenceMarker(env)
               => ~TookNewCommits(RunFrom(env))
            /\ ( /\ currentHashOf(state, env) # ReferenceMarker(env)
                 /\ newCommitsOf(state, env) # <<>> )
               => TookNewCommits(RunFrom(env))

\* ------------------------------------------------------------------------
\* The ghost diff
\* ------------------------------------------------------------------------
\* a run started now with inputs env observes a head that differs from
\* lastCommitHash and retrieves no change description (git.ts 36-47: the
\* range fails or the marker is empty; the remote listing fails)
GhostDiff(env) ==
    /\ state.isActive
    /\ currentHashOf(state, env) # NoHash
    /\ currentHashOf(state, env) # state.lastCommitHash
    /\ newCommitsOf(state, env) = <<>>

\* C30: on a ghost diff with today's quota used up the run publishes
\* nothing and writes the state file with lastCommitHash set to the head it
\* observed.
C30_GhostDiffAdvancesMarker ==
    (AllIdle /\ ~QuotaLeft(ResetQuota(state, clock))) =>
      \A env \in Envs :
         (Reads(state, env) /\ GhostDiff(env))
         => /\ RunFrom(env).pub = <<>>
            /\ RunFrom(env).write # <<>>
            /\ RunFrom(env).write[1].lastCommitHash = currentHashOf(state, env)

\* ------------------------------------------------------------------------
\* The topic fallback
\* ------------------------------------------------------------------------
\* the features a run started now works with: the cached analysis, or a
\* fresh one when none is cached (code-feature-fallback.ts 307-309)
Discovered(env) ==
    IF state.analyzedFeatures # <<>> THEN state.analyzedFeatures
    ELSE analyzeRepositoryFeatures(state.monitoredRepo, env.filesOk)

\* ... and those of them whose name is not in postedFeatures
UnpostedTopics(env) ==
    { f \in Range(Discovered(env)) : f.name \notin Range(state.postedFeatures) }

\* C31: the topic a fallback run publishes is a discovered topic whose name
\* is not in postedFeatures and whose relevance no other such topic
\* exceeds; its name is what the run appends to postedFeatures.
C31_FallbackTakesMostRelevant ==
    (AllIdle /\ state.isActive) =>
      \A env \in Envs :
         ( /\ Reads(state, env)
           /\ RunFrom(env).pub # <<>>
           /\ RunFrom(env).pub[1].path = "feature" )
         => /\ \E f \in UnpostedTopics(env) :
                  /\ f.name = RunFrom(env).pub[1].topic
                  /\ \A g \in UnpostedTopics(env) : g.relevance <= f.relevance
            /\ RunFrom(env).write[1].postedFeatures
                  = Append(state.postedFeatures, RunFrom(env).pub[1].topic)
            /\ RunFrom(env).write[1].analyzedFeatures = Discovered(env)

\* the second topic of a repository was published after the first, the
\* more relevant of the two, which the AI had listed last
C31_Witness ==
    /\ Len(published) >= 2
    /\ published[Len(published)].path = "feature"
    /\ published[Len(published)].topic = "cache"
    /\ published[Len(published) - 1].topic = "auth"
    /\ state.postedFeatures = <<"auth", "cache">>
    /\ AIFeatures(state.monitoredRepo)[1].name = "cache"

\* ------------------------------------------------------------------------
\* The headless runner
\* ------------------------------------------------------------------------
\* C33: every iteration of runLoop ends with the next run scheduled: from
\* the start of an iteration the runner goes to the call of
\* checkAndRunAutoPilot or to the pending timer, from the call to the
\* pending timer, and it is never left with no timer pending.
C33_EveryIterationSchedulesNext ==
    /\ [](runner.pc \in {"main", "loop", "checking", "wait"})
    /\ [][ /\ runner.pc = "loop" => runner'.pc \in {"loop", "checking", "wait"}
           /\ runner.pc = "checking" => runner'.pc \in {"checking", "wait"} ]_vars

\* ------------------------------------------------------------------------
\* Topics, one per tick
\* ------------------------------------------------------------------------
\* the history window backfill gets for a run started now (autopilot-core.ts
\* 481-504)
WindowOf(env) ==
    IF Remote(state)
    THEN getRemoteCommits(state.monitoredRepo, BACKFILL_FETCH_LIMIT, env.commitsOk)
    ELSE LastCommits(LocalName, BACKFILL_FETCH_LIMIT)

\* a run started now with inputs env is a topic-fallback run: it enters
\* backfill, finds every entry of the window in postedCommits and calls
\* postAboutCodeFeature for a remote repository (lines 512-519)
FallbackRun(env) ==
    /\ EntersBackfill(env)
    /\ Remote(state)
    /\ ~Remote(state) => env.commitsOk
    /\ \A c \in Range(WindowOf(env)) : c \in Range(state.postedCommits)

\* every collaborator answers and the window is open
AllSucceed(env) ==
    /\ env.headOk /\ env.commitsOk /\ env.dbOk /\ env.filesOk
    /\ env.genOk /\ env.postOk
    /\ getPostTypeForTimeFallback(env.hour).allowed

\* C32: a topic-fallback run with the window open, quota left and every
\* collaborator answering publishes one topic for as long as a discovered
\* topic is left unposted, and adds it to postedFeatures, so that repeated
\* runs end with postedFeatures covering analyzedFeatures.
C32_OneTopicPerTickUntilAllPosted ==
    (AllIdle /\ state.isActive) =>
      \A env \in Envs :
         ( /\ Reads(state, env)
           /\ AllSucceed(env)
           /\ FallbackRun(env)
           /\ UnpostedTopics(env) # {} )
         => /\ RunFrom(env).pub # <<>>
            /\ RunFrom(env).pub[1].path = "feature"
            /\ Len(RunFrom(env).write[1].postedFeatures)
                  = Len(state.postedFeatures) + 1

\* ------------------------------------------------------------------------
\* The marker after a switch of target
\* ------------------------------------------------------------------------
\* C34: a toggleAutoPilot(true, ...) whose head fetch succeeds and that
\* changes the target (the mode or the repository) leaves lastCommitHash at
\* the current head of the new target, from a remote repository back to
\* the local one as well as from one repository to another.
C34_SwitchStartsAtNewHead ==
    [][ \A url \in SwitchInputs :
          ( /\ ToggleWith(TRUE, url, TRUE)
            /\ \/ state'.monitoringMode # state.monitoringMode
               \/ state'.monitoredRepo # state.monitoredRepo )
          => state'.lastCommitHash = HeadOf(MonitoredName(state')) ]_vars

\* ------------------------------------------------------------------------
\* The switch and a tick in flight
\* ------------------------------------------------------------------------
\* C35: the state write of a tick leaves isActive, monitoredRepo and
\* monitoringMode as they are in the stored state, so a toggleAutoPilot that
\* completed while the tick was in flight is still in force after the write.
C35_TickWriteKeepsToggle ==
    [][ TickSave("timer") =>
          /\ state'.isActive = state.isActive
          /\ state'.monitoredRepo = state.monitoredRepo
          /\ state'.monitoringMode = state.monitoringMode ]_vars

\* ------------------------------------------------------------------------
\* Topics after a switch of repository
\* ------------------------------------------------------------------------
\* C36: the topic a fallback run publishes is one derived from the
\* repository monitored at that run, so that after a switch to another
\* repository nothing cached for the previous one is posted.
C36_FallbackUsesMonitoredRepoTopics ==
    (AllIdle /\ state.isActive) =>
      \A env \in Envs :
         ( /\ Reads(state, env)
           /\ RunFrom(env).pub # <<>>
           /\ RunFrom(env).pub[1].path = "feature" )
         => \E f \in Range(RepoFeatures(state.monitoredRepo)) :
               f.name = RunFrom(env).pub[1].topic

\* ------------------------------------------------------------------------
\* The cap of postedCommits
\* ------------------------------------------------------------------------
\* what is left of `old` after `k` entries were appended to it and the
\* list was cut to the cap: `new` without its last k entries is `old`
\* without its first entries, as many as the cap was exceeded by
KeepsNewest(old, new, k) ==
    LET dropped == IF Len(old) + k > POSTED_COMMITS_CAP
                   THEN Len(old) + k - POSTED_COMMITS_CAP ELSE 0
    IN  /\ Len(new) = Len(old) + k - dropped
        /\ \A i \in 1..(Len(old) - dropped) : new[i] = old[i + dropped]

\* C37: postedCommits never holds more than 100 entries; the state write
\* of a tick that published about commits appends one hash of the watched
\* repository to the list, any other write leaves the list as it is, and
\* when the append makes 101 the oldest entry is the one dropped: the most
\* recent 100 remain in their order.
C37_PostedCommitsCapped ==
    /\ [](Len(state.postedCommits) <= POSTED_COMMITS_CAP)
    /\ [][ TickSave("timer") =>
             IF /\ tick["timer"].posted
                /\ published[Len(published)].path \in {"normal", "backfill"}
             THEN /\ KeepsNewest(state.postedCommits, state'.postedCommits, 1)
                  /\ state'.postedCommits[Len(state'.postedCommits)]
                        \in { <<RemoteRepo, n>> : n \in 1..Len(hist[RemoteRepo]) }
             ELSE state'.postedCommits = state.postedCommits ]_vars

\* the list was full, a post about a commit of o/r was recorded, and the
\* oldest entry made room for it
C37_Witness ==
    /\ Len(state.postedCommits) = POSTED_COMMITS_CAP
    /\ state.postedCommits[1] = <<OtherRepo, 2>>
    /\ state.postedCommits[POSTED_COMMITS_CAP][1] = RemoteRepo

\* ------------------------------------------------------------------------
\* The day's count is reset once
\* ------------------------------------------------------------------------
\* C38: once lastPostDate = D is stored with a counted post, no run that
\* starts on day D writes a lower postsToday or an earlier lastPostDate:
\* the count of day D is never set back to 0, however many ticks run.
C38_NoSecondResetInADay ==
    (AllIdle /\ state.lastPostDate = clock /\ state.postsToday >= 1) =>
      \A env \in Envs :
         LET out == RunFrom(env)
         IN  (Reads(state, env) /\ out.write # <<>>)
             => /\ out.write[1].postsToday >= state.postsToday
                /\ out.write[1].lastPostDate >= state.lastPostDate

\* a post was counted today and a further run of today writes the state
C38_Witness ==
    /\ AllIdle
    /\ published # <<>>
    /\ published[Len(published)].day = clock
    /\ state.lastPostDate = clock
    /\ state.postsToday >= 1
    /\ \E env \in Envs : Reads(state, env) /\ RunFrom(env).write # <<>>

\* ------------------------------------------------------------------------
\* calculateSignificance
\* ------------------------------------------------------------------------
\* the ways a prefix is written, whatever the case of its letters
SpellingsOf(prefix) ==
    CASE prefix = "feat:" -> {"feat:", "Feat:", "FEAT:"}
      [] prefix = "perf:" -> {"perf:", "Perf:"}
      [] prefix = "fix:" -> {"fix:", "Fix:"}
      [] prefix = "refactor:" -> {"refactor:", "Refactor:"}

ContainsAnyCase(entry, prefix) ==
    \E i \in 1..Len(entry) : entry[i] \in SpellingsOf(prefix)

\* the entries of a list that count 3, 2 and 1
Worth3(commits) == { i \in 1..Len(commits) : ContainsAnyCase(commits[i], "feat:") }
Worth2(commits) ==
    { i \in 1..Len(commits) :
        /\ ~ContainsAnyCase(commits[i], "feat:")
        /\ ContainsAnyCase(commits[i], "perf:") }
Worth1(commits) ==
    { i \in 1..Len(commits) :
        /\ ~ContainsAnyCase(commits[i], "feat:")
        /\ ~ContainsAnyCase(commits[i], "perf:")
        /\ \/ ContainsAnyCase(commits[i], "fix:")
           \/ ContainsAnyCase(commits[i], "refactor:") }

\* C39: calculateSignificance returns 3 for every entry that contains
\* 'feat:', 2 for every other entry that contains 'perf:', 1 for every
\* other entry that contains 'fix:' or 'refactor:', and 0 for the rest,
\* summed over the list and whatever the case of the letters; the score is
\* not negative, and a second call on the same list returns the same score.
C39_ScoreIsSumOfOnePerEntry ==
    call.fn = "calculateSignificance" =>
      \A k \in 1..Len(call.ret) :
         /\ call.ret[k] = 3 * Cardinality(Worth3(call.arg))
                            + 2 * Cardinality(Worth2(call.arg))
                            + Cardinality(Worth1(call.arg))
         /\ call.ret[k] >= 0
         /\ call.ret[k] = call.ret[1]

\* an entry with 'FEAT:' and 'perf:' and one with 'Perf:' and 'fix:' were
\* scored 3 + 2, twice
C39_Witness ==
    /\ call.fn = "calculateSignificance"
    /\ call.arg = << <<"FEAT:", "perf:">>, <<"Perf:", "fix:">> >>
    /\ call.ret = <<5, 5>>

\* ------------------------------------------------------------------------
\* getPostTypeForTime
\* ------------------------------------------------------------------------
Formats == {"hook", "value", "thread"}

\* the hours at which posting is allowed in format t
Band(t) == { h \in Hours : getPostTypeForTime(h) = [allowed |-> TRUE, type |-> t] }

Contiguous(S) == \A a \in S, b \in S : \A h \in a..b : h \in S

\* C40: each hour 0..23 has one answer, the same at every call; the hours
\* at which posting is allowed make three bands, one for each of hook, value
\* and thread, each band without a gap and no hour in two of them, and at
\* every other hour posting is not allowed.
C40_ThreeDisjointBands ==
    call.fn = "getPostTypeForTime" =>
      /\ \A k \in 1..Len(call.ret) :
            /\ call.ret[k] = call.ret[1]
            /\ call.ret[k].allowed \in BOOLEAN
            /\ call.ret[k].allowed <=> (\E t \in Formats : call.arg[1] \in Band(t))
            /\ call.ret[k].allowed => /\ call.ret[k].type \in Formats
                                      /\ call.arg[1] \in Band(call.ret[k].type)
      /\ \A t \in Formats : Band(t) # {} /\ Contiguous(Band(t))
      /\ \A t \in Formats, u \in Formats : t # u => Band(t) \cap Band(u) = {}

\* the oracle was asked at noon, where two of its tests hold, and answered
\* hook both times
C40_Witness ==
    /\ call.fn = "getPostTypeForTime"
    /\ call.arg = <<12>>
    /\ call.ret = << [allowed |-> TRUE, type |-> "hook"],
                     [allowed |-> TRUE, type |-> "hook"] >>
====
